---------------------------- MODULE Spec2Model ----------------------------
(***************************************************************************)
(* A model of the ChiptunePractice synthesiser's DSP classes: Vibrato,     *)
(* Arpeggiator, PitchBend, Bitcrusher and Delay.  Each class is a state    *)
(* machine over its own member variables; every public method is one       *)
(* action.                                                                 *)
(*                                                                         *)
(* Numbers.  The C++ `float` members are modelled as binary floating-point *)
(* numbers of reduced width: a value is an integer count of a fixed unit   *)
(* and every arithmetic result is rounded to MantissaBits significant bits *)
(* (round to nearest, ties to even), as IEEE-754 does with 24 bits.        *)
(* Sample values, positions and 0..1 parameters count units of 1/ONE.      *)
(***************************************************************************)
EXTENDS Integers, Sequences, FiniteSets, TLC

(***************************************************************************)
(* The state: the member variables of one instance of each class, the      *)
(* plugin parameters (apvts) whose value between calls matters, and        *)
(* history variables recording what the last call returned.                *)
(***************************************************************************)
\* Vibrato (Vibrato.h)
VARIABLES
    pVibSustain,        \* apvts "vibSustain", seconds in units of 1/ONE
    pVibSpeed,          \* apvts "vibSpeed", units of 1/ONE
    pVibAmount,         \* apvts "vibAmount", units of 1/ONE
    vibSampleRate,      \* Vibrato::sampleRate, whole Hz
    vibLFO,             \* Vibrato::vibratoLFO
    vibFreq,            \* Vibrato::VibratoFreq, units of 1/ONE Hz
    vibAmount,          \* Vibrato::VibratoAmount, units of 1/(20000*ONE)
    vibSustainSamples,  \* Vibrato::sustainSamples
    vibSustainCounter,  \* Vibrato::sustainCounter
    vibOut,             \* the value process() returned last, units of 1/(20000*ONE)
    vibGated,           \* whether that return was the sustain period's `return 0.0f`
    vibCalls            \* process() calls since resetSustainCounter() with the
                        \* sustain setting and sample rate unchanged; -1: not counting

vibVars == <<pVibSustain, pVibSpeed, pVibAmount, vibSampleRate, vibLFO, vibFreq,
             vibAmount, vibSustainSamples, vibSustainCounter, vibOut, vibGated, vibCalls>>

\* Arpeggiator (Arpeggiator.h)
VARIABLES
    pArpSpeed,          \* apvts "arpSpeed", in hundredths (0..100)
    arpPattern,         \* Arpeggiator::pattern
    arpNoteIndex,       \* Arpeggiator::noteIndex
    arpNoteIncrement,   \* Arpeggiator::noteIncrement
    arpNumOctaves,      \* Arpeggiator::numOctaves
    arpRootNote,        \* Arpeggiator::rootNote
    arpCurrentNote,     \* Arpeggiator::currentNote
    arpSpeed,           \* Arpeggiator::speed, in hundredths
    arpSampleRate,      \* Arpeggiator::sampleRate
    arpSamplesPerNote,  \* Arpeggiator::samplesPerNote
    arpSampleCounter,   \* Arpeggiator::sampleCounter
    arpCurrentPattern,  \* Arpeggiator::currentArpPattern
    arpCurrentOctave,   \* Arpeggiator::currentArpOctave
    arpOut,             \* the frequency getNextFrequency() returned last
    arpBadRead,         \* pattern[noteIndex] was read outside the pattern
    arpAdvances,        \* pattern advances since startArpeggio(), the second and
                        \* later passes through the cycle all counted as the second;
                        \* -1 before startArpeggio()
    arpCalls            \* getNextFrequency() calls since startArpeggio(), up to
                        \* MaxArpCalls + 1; -1 before startArpeggio() and once
                        \* the speed control or the sample rate has been set

arpVars == <<pArpSpeed, arpPattern, arpNoteIndex, arpNoteIncrement, arpNumOctaves,
             arpRootNote, arpCurrentNote, arpSpeed, arpSampleRate, arpSamplesPerNote,
             arpSampleCounter, arpCurrentPattern, arpCurrentOctave, arpOut,
             arpBadRead, arpAdvances, arpCalls>>

\* PitchBend (PitchBend.h)
VARIABLES
    pbInputNote,        \* PitchBend::inputNote
    pbInitNote,         \* PitchBend::initNote
    pbCurrentFreq,      \* PitchBend::currentFreq
    pbInputFreq,        \* PitchBend::inputFreq
    pbBendSamples,      \* PitchBend::bendSamples
    pbBendDelta,        \* PitchBend::bendDelta
    pbSampleRate,       \* PitchBend::sampleRate
    pbStartFreq,        \* the frequency startPitchBend() started the bend from
    pbCalls             \* process() calls since startPitchBend(), counted up to
                        \* MaxPbCalls; -1: not counting

pbVars == <<pbInputNote, pbInitNote, pbCurrentFreq, pbInputFreq, pbBendSamples,
            pbBendDelta, pbSampleRate, pbStartFreq, pbCalls>>

\* Bitcrusher (Bitcrusher.h)
VARIABLES
    bcSampleRateReduction,  \* Bitcrusher::sampleRateReduction
    bcBitDepth,             \* Bitcrusher::bitDepth
    bcBitDepthScale,        \* Bitcrusher::bitDepthScale, a whole number
    bcLastProcessedSample,  \* Bitcrusher::lastProcessedSample, units of 1/ONE
    bcCurrentSampleCount,   \* Bitcrusher::currentSampleCount
    bcRecomputed,           \* whether the last process() call entered the `if`
    bcCalls,                \* process() calls since construction, the reduction
                            \* factor set before the first of them, counted up to
                            \* MaxBcCalls; -1: not counting
    bcSweep,                \* how many points of the ascending input sweep the
                            \* last process() calls fed in, reduction factor 1
    bcSeen                  \* the values process() returned during that sweep

bcVars == <<bcSampleRateReduction, bcBitDepth, bcBitDepthScale, bcLastProcessedSample,
            bcCurrentSampleCount, bcRecomputed, bcCalls, bcSweep, bcSeen>>

\* Delay (Delay.h)
VARIABLES
    dlBuffer,           \* Delay::buffer, samples in units of 1/ONE
    dlReadPos,          \* Delay::readPos, units of 1/ONE
    dlWritePos,         \* Delay::writePos, units of 1/ONE
    dlFeedback,         \* Delay::feedback, units of 1/ONE
    dlDelayTime,        \* Delay::delayTime, samples in units of 1/ONE
    dlSize,             \* Delay::size
    dlDryWetMix,        \* Delay::dryWetMix, units of 1/ONE
    dlLast,             \* the process() call just made: its argument, its return
                        \* value, the delayed (wet) value it read and whether it
                        \* bypassed the delay line; DlNoCall after a setter
    dlFault,            \* a call indexed the buffer out of range or divided by 0
    dlUse,              \* how the object has been used so far: "new", "sized"
                        \* (setSize(n > 0) only), "ready" (then setDelayTime(t >= 0),
                        \* process, setFeedback, setDryWetMix), "off" (anything else)
    dlEcho,             \* process(0) calls since a unit impulse entered an all-zero
                        \* buffer with a whole delay 0 < D <= size, no setter called
                        \* since; -1: no such impulse
    dlCalls,            \* process() calls so far, at most MaxDlCalls
    dlUnset             \* the members among "delayTime" and "size" that nothing
                        \* has assigned yet

dlVars == <<dlBuffer, dlReadPos, dlWritePos, dlFeedback, dlDelayTime, dlSize,
            dlDryWetMix, dlLast, dlFault, dlUse, dlEcho, dlCalls, dlUnset>>

\* Phasor (PolyBLEPOscillator.h), one oscillator on its own
VARIABLES
    phasor,             \* the Phasor's members: frequency, sampleRate, phase, phaseDelta
    phWithin            \* whether every tick so far added a phaseDelta in [0, 1)

phVars == <<phasor, phWithin>>

\* ChiptuneSynthVoice (ChiptuneSynthesiser.h): the playing flag and the envelope
VARIABLES
    voPlaying,          \* ChiptuneSynthVoice::playing
    voEnv,              \* ChiptuneSynthVoice::env (juce::ADSR): its stage, level,
                        \* stage lengths in samples, sustain level and release rate
    voHeld,             \* the key is down: startNote() without its stopNote() yet
    voOp,               \* the call just made: "none", "start", "stop" or "render"
    voTicks,            \* samples for which the last renderNextBlock() ran the
                        \* modulation modules (vibrato.process() and the rest)
    voBefore            \* the envelope's isActive() and level as the
                        \* startNote() just made found them; cleared by the
                        \* other calls

voVars == <<voPlaying, voEnv, voHeld, voOp, voTicks, voBefore>>

\* AP_assessment3AudioProcessor (PluginProcessor.cpp): the master delay is the
\* Delay above (one of the two channels), driven by the processor
VARIABLES
    mdSampleRate        \* getSampleRate(); 0 before the first prepareToPlay()

mdVars == <<mdSampleRate>>

\* PulseWidthModulation (PulseWidthModulation.h)
VARIABLES
    pPwm,               \* the parameters pwmSustain, pwmMode, pwmRate
    pwmSampleRate,      \* PulseWidthModulation::sampleRate
    pwmOsc,             \* PulseWidthModulation::arpOsc
    pwmCurrentPwMode,   \* PulseWidthModulation::currentPwMode
    pwmPwIndex,         \* PulseWidthModulation::pwIndex
    pwmSustainSamples,  \* PulseWidthModulation::sustainSamples
    pwmSustainCounter,  \* PulseWidthModulation::sustainCounter
    pwmTarget,          \* the target process() last gave smoothPulseWidth
    pwmPinned,          \* the last process() call took the sustain branch
    pwmCalls            \* process() calls since resetSustainCounter() with the
                        \* settings unchanged; -1 when not counting

pwmVars == <<pPwm, pwmSampleRate, pwmOsc, pwmCurrentPwMode, pwmPwIndex,
             pwmSustainSamples, pwmSustainCounter, pwmTarget, pwmPinned, pwmCalls>>

\* Noise (Noise.h)
VARIABLES
    nsSampleRate,       \* Noise::sampleRate, in the units of MidiNoteInHertz
    nsFrequency,        \* Noise::frequency, and with it Noise::increment:
                        \* increment = frequency * wtSize / sampleRate
    nsPhase,            \* Noise::phase, counted in units of wtSize / sampleRate
                        \* table steps: the phase is nsPhase * wtSize / sampleRate
    nsFault,            \* process() has read the table outside [0, wtSize)
    nsCalls             \* process() calls made so far

nsVars == <<nsSampleRate, nsFrequency, nsPhase, nsFault, nsCalls>>

\* The voice's triangle oscillator and its bit crusher (ChiptuneSynthesiser.h)
VARIABLES
    triWave,            \* ChiptuneSynthVoice::triWave, a TriOsc (Phasor members)
    triCrusher,         \* the voice's Bitcrusher: currentSampleCount and
                        \* lastProcessedSample
    triWhole,           \* every sample since the last phase wrap was rendered
                        \* with the distortion on, at one frequency
    triSeen             \* the amplitudes bitcrusher.process() returned since
                        \* the last phase wrap, while triWhole

triVars == <<triWave, triCrusher, triWhole, triSeen>>

\* SquareOsc (PolyBLEPOscillator.h)
VARIABLES
    squareOsc,          \* the Phasor members of a SquareOsc
    sqPulseWidth,       \* SquareOsc::pulseWidth
    sqOut,              \* what the last process() returned
    sqPrev,             \* the phase and the output of the process() call before it
    sqRun               \* process() calls since a setter was last called, up to 2

sqVars == <<squareOsc, sqPulseWidth, sqOut, sqPrev, sqRun>>

\* The modulation chain of a voice (ChiptuneSynthesiser.h)
VARIABLES
    chVoice,            \* ChiptuneSynthVoice: playing, freq, currentOscType, and
                        \* the note and the count of samples rendered for it
    chArp,              \* the voice's Arpeggiator: its position in the pattern
    chBend,             \* the voice's PitchBend: currentFreq, inputFreq, bendDelta
    chVib,              \* the voice's Vibrato: LFO, sustain counter, last output
    chPwm,              \* the voice's PulseWidthModulation: oscillator, sustain
                        \* counter, pwIndex
    chSwitch            \* the enable switches read for the last rendered sample

chVars == <<chVoice, chArp, chBend, chVib, chPwm, chSwitch>>

\* AP_assessment3AudioProcessor (PluginProcessor.cpp): the two channels of the
\* master chain
VARIABLES
    stSampleRate,       \* getSampleRate(); 0 before the first prepareToPlay()
    stChannels,         \* bitcrushers[k] and delays[k] by channel (empty before
                        \* prepareToPlay()), with the samples processBlock() left
                        \* in channel k of the buffer
    stCalls             \* samples processed so far, at most MaxStCalls

stVars == <<stSampleRate, stChannels, stCalls>>

vars ==
    <<vibVars, arpVars, pbVars, bcVars, dlVars, phVars,
      voVars, mdVars, pwmVars, nsVars, triVars, sqVars, chVars, stVars>>

\* What an action of one class leaves alone: every other class's variables.
VibFrame ==
    UNCHANGED <<arpVars, pbVars, bcVars, dlVars, phVars, voVars,
                mdVars, pwmVars, nsVars, triVars, sqVars, chVars, stVars>>

ArpFrame ==
    UNCHANGED <<vibVars, pbVars, bcVars, dlVars, phVars, voVars,
                mdVars, pwmVars, nsVars, triVars, sqVars, chVars, stVars>>

PbFrame ==
    UNCHANGED <<vibVars, arpVars, bcVars, dlVars, phVars, voVars,
                mdVars, pwmVars, nsVars, triVars, sqVars, chVars, stVars>>

BcFrame ==
    UNCHANGED <<vibVars, arpVars, pbVars, dlVars, phVars, voVars,
                mdVars, pwmVars, nsVars, triVars, sqVars, chVars, stVars>>

DlFrame ==
    UNCHANGED <<vibVars, arpVars, pbVars, bcVars, phVars, voVars,
                mdVars, pwmVars, nsVars, triVars, sqVars, chVars, stVars>>

PhFrame ==
    UNCHANGED <<vibVars, arpVars, pbVars, bcVars, dlVars, voVars,
                mdVars, pwmVars, nsVars, triVars, sqVars, chVars, stVars>>

VoFrame ==
    UNCHANGED <<vibVars, arpVars, pbVars, bcVars, dlVars, phVars,
                mdVars, pwmVars, nsVars, triVars, sqVars, chVars, stVars>>

MdFrame ==
    UNCHANGED <<vibVars, arpVars, pbVars, bcVars, phVars, voVars,
                pwmVars, nsVars, triVars, sqVars, chVars, stVars>>

PwmFrame ==
    UNCHANGED <<vibVars, arpVars, pbVars, bcVars, dlVars, phVars,
                voVars, mdVars, nsVars, triVars, sqVars, chVars, stVars>>

NsFrame ==
    UNCHANGED <<vibVars, arpVars, pbVars, bcVars, dlVars, phVars,
                voVars, mdVars, pwmVars, triVars, sqVars, chVars, stVars>>

TriFrame ==
    UNCHANGED <<vibVars, arpVars, pbVars, bcVars, dlVars, phVars,
                voVars, mdVars, pwmVars, nsVars, sqVars, chVars, stVars>>

SqFrame ==
    UNCHANGED <<vibVars, arpVars, pbVars, bcVars, dlVars, phVars,
                voVars, mdVars, pwmVars, nsVars, triVars, chVars, stVars>>

ChFrame ==
    UNCHANGED <<vibVars, arpVars, pbVars, bcVars, dlVars, phVars,
                voVars, mdVars, pwmVars, nsVars, triVars, sqVars, stVars>>

StFrame ==
    UNCHANGED <<vibVars, arpVars, pbVars, bcVars, dlVars, phVars,
                voVars, mdVars, pwmVars, nsVars, triVars, sqVars, chVars>>

\* Width of the significand of the modelled float (24 in the program).
MantissaBits == 8

\* The number of units in 1.0 for samples, positions and 0..1 parameters.
ONE == 2^6

Abs(x) == IF x < 0 THEN -x ELSE x

Min(a, b) == IF a <= b THEN a ELSE b

Max(a, b) == IF a >= b THEN a ELSE b

\* The spacing of the representable numbers around magnitude a.
RECURSIVE UlpOf(_, _)
UlpOf(a, u) == IF a < u * 2^MantissaBits THEN u ELSE UlpOf(a, 2 * u)

\* The rational m/n (m >= 0, n > 0) rounded to a multiple of u, ties to even.
RoundRatTo(m, n, u) ==
    LET d == n * u
        q == m \div d
        r == m % d
    IN  IF 2 * r < d THEN q * u
        ELSE IF 2 * r > d THEN (q + 1) * u
        ELSE IF q % 2 = 0 THEN q * u ELSE (q + 1) * u

\* The rational a/n (n > 0) as a float.
FRat(a, n) ==
    LET m == Abs(a)
        r == RoundRatTo(m, n, UlpOf(m \div n, 1))
    IN  IF a < 0 THEN -r ELSE r

\* float results of +, -, *, / on floats counted in units of 1/ONE.
FRound(x) == FRat(x, 1)

FAdd(a, b) == FRound(a + b)

FSub(a, b) == FRound(a - b)

FMul(a, b) == FRat(a * b, ONE)

\* static_cast<int>(x) of the rational a/n: truncation toward zero.
TruncRat(a, n) == IF a >= 0 THEN a \div n ELSE -((-a) \div n)

\* std::floor of the rational a/n (n > 0).
FloorRat(a, n) == a \div n

\* std::round of the rational a/n (n > 0): halves away from zero.
RoundHalfAway(a, n) ==
    LET m == Abs(a)
        q == IF 2 * (m % n) >= n THEN (m \div n) + 1 ELSE m \div n
    IN  IF a < 0 THEN -q ELSE q

(***************************************************************************)
(* Phasor / SinOsc (PolyBLEPOscillator.h), as used by Vibrato's LFO.  A    *)
(* phasor is the record of its four float members; frequency is counted in *)
(* units of 1/ONE Hz, sampleRate in whole Hz, phase in units of 1/ONE.     *)
(***************************************************************************)
\* The default member initialisers `sampleRate = 44100.0f`.
DefaultSampleRate == 44100

PhasorNew ==
    [frequency |-> 0, sampleRate |-> DefaultSampleRate, phase |-> 0, phaseDelta |-> 0]

PhasorSetSampleRate(ph, sr) == [ph EXCEPT !.sampleRate = sr]

PhasorSetFrequency(ph, f) ==
    [ph EXCEPT !.frequency = f, !.phaseDelta = FRat(f, ph.sampleRate)]

PhasorUpdatePhase(ph) ==
    LET p == FAdd(ph.phase, ph.phaseDelta)
    IN  [ph EXCEPT !.phase = IF p > ONE THEN FSub(p, ONE) ELSE p]

\* Sample rates (whole Hz) and frequencies (units of 1/ONE Hz) of the oscillator
\* on its own; the last frequency exceeds the lowest sample rate.
PhSampleRates == {4, 8}

PhFreqs == {0, ONE, 2 * ONE, 3 * ONE, 5 * ONE}

PhInit ==
    /\ phasor = PhasorNew
    /\ phWithin = TRUE

PhSetSampleRate(sr) ==
    /\ phasor' = PhasorSetSampleRate(phasor, sr)
    /\ UNCHANGED phWithin
    /\ PhFrame

PhSetFrequency(f) ==
    /\ phasor' = PhasorSetFrequency(phasor, f)
    /\ UNCHANGED phWithin
    /\ PhFrame

\* process() of the base class, or getPhase(): updatePhase(), then the phase.
PhProcess ==
    /\ phasor' = PhasorUpdatePhase(phasor)
    /\ phWithin' = (phWithin /\ phasor.phaseDelta >= 0 /\ phasor.phaseDelta < ONE)
    /\ PhFrame

PhNext ==
    \/ \E sr \in PhSampleRates : PhSetSampleRate(sr)
    \/ \E f \in PhFreqs : PhSetFrequency(f)
    \/ PhProcess

\* std::sin(p * 2 pi), by the parabola through its zeros and extrema.
SinOscOutput(p) ==
    IF 2 * p < ONE
    THEN FRat(16 * p * (ONE \div 2 - p), ONE)
    ELSE -FRat(16 * (p - ONE \div 2) * (ONE - p), ONE)

(***************************************************************************)
(* Vibrato (Vibrato.h).                                                    *)
(***************************************************************************)
\* Sample rates the host sets in the model (scaled down from 44100).
VibSampleRates == {8, 16}

\* Values of the 0..1 parameters the host sets in the model.
VibSustains == {0, (3 * ONE) \div 16, ONE \div 4}

VibSpeeds == {0, ONE}

VibAmounts == {ONE}

\* How many process() calls are counted after a reset.
MaxVibCalls == 5

VibInit ==
    /\ pVibSustain = 0              \* the parameter defaults of createParameterLayout
    /\ pVibSpeed = 0
    /\ pVibAmount = ONE
    /\ vibSampleRate = DefaultSampleRate
    /\ vibLFO = PhasorNew
    /\ vibFreq = 5 * ONE
    /\ vibAmount = 100 * ONE
    /\ vibSustainSamples = 0
    /\ vibSustainCounter = 0
    /\ vibOut = 0
    /\ vibGated = FALSE
    /\ vibCalls = -1

\* The host moves the sustain control.
VibHostSetSustain(t) ==
    /\ VibFrame
    /\ t # pVibSustain
    /\ pVibSustain' = t
    /\ vibCalls' = -1
    /\ UNCHANGED <<pVibSpeed, pVibAmount, vibSampleRate, vibLFO, vibFreq, vibAmount,
                   vibSustainSamples, vibSustainCounter, vibOut, vibGated>>

\* The host moves the speed and amount controls.
VibHostSetSpeedAmount(s, a) ==
    /\ VibFrame
    /\ <<s, a>> # <<pVibSpeed, pVibAmount>>
    /\ pVibSpeed' = s
    /\ pVibAmount' = a
    /\ UNCHANGED <<pVibSustain, vibSampleRate, vibLFO, vibFreq, vibAmount,
                   vibSustainSamples, vibSustainCounter, vibOut, vibGated, vibCalls>>

VibSetSampleRate(sr) ==
    /\ VibFrame
    /\ vibSampleRate' = sr
    /\ vibLFO' = PhasorSetSampleRate(vibLFO, sr)
    /\ vibCalls' = IF sr = vibSampleRate THEN vibCalls ELSE -1
    /\ UNCHANGED <<pVibSustain, pVibSpeed, pVibAmount, vibFreq, vibAmount,
                   vibSustainSamples, vibSustainCounter, vibOut, vibGated>>

VibSetFrequency ==
    /\ VibFrame
    /\ vibFreq' = pVibSpeed
    /\ vibLFO' = PhasorSetFrequency(vibLFO, pVibSpeed)
    /\ UNCHANGED <<pVibSustain, pVibSpeed, pVibAmount, vibSampleRate, vibAmount,
                   vibSustainSamples, vibSustainCounter, vibOut, vibGated, vibCalls>>

VibResetSustainCounter ==
    /\ VibFrame
    /\ vibSustainCounter' = 0
    /\ vibCalls' = 0
    /\ UNCHANGED <<pVibSustain, pVibSpeed, pVibAmount, vibSampleRate, vibLFO, vibFreq,
                   vibAmount, vibSustainSamples, vibOut, vibGated>>

\* `newSustain * sampleRate != sustainSamples`: the float product against the int.
VibSustainChanged(newSustain, sampleRate, sustainSamples) ==
    FRound(newSustain * sampleRate) # sustainSamples * ONE

\* `static_cast<int>(newSustain * sampleRate)`.
VibSustainInSamples(newSustain, sampleRate) ==
    TruncRat(FRound(newSustain * sampleRate), ONE)

\* `sustainCounter < sustainSamples`: the sustain period has not elapsed.
VibInSustain(counter, samples) == counter < samples

\* process(), with updateSustainParameters() inlined as its first statement.
VibProcess ==
    /\ VibFrame
    /\ vibSampleRate \in VibSampleRates
    /\ LET changed  == VibSustainChanged(pVibSustain, vibSampleRate, vibSustainSamples)
           samples  == IF changed THEN VibSustainInSamples(pVibSustain, vibSampleRate)
                                  ELSE vibSustainSamples
           counter  == IF changed THEN 0 ELSE vibSustainCounter
       IN  /\ vibSustainSamples' = samples
           /\ IF VibInSustain(counter, samples)
              THEN /\ vibSustainCounter' = counter + 1
                   /\ vibOut' = 0
                   /\ vibGated' = TRUE
                   /\ UNCHANGED <<vibFreq, vibAmount, vibLFO>>
              ELSE LET freq == FAdd(FMul(pVibSpeed, 5 * ONE), 3 * ONE)
                       lfo  == PhasorUpdatePhase(PhasorSetFrequency(vibLFO, freq))
                   IN  /\ vibSustainCounter' = counter
                       /\ vibFreq' = freq
                       /\ vibAmount' = pVibAmount
                       /\ vibLFO' = lfo
                       /\ vibOut' = FMul(SinOscOutput(lfo.phase), pVibAmount)
                       /\ vibGated' = FALSE
    /\ vibCalls' = IF vibCalls >= 0 /\ vibCalls < MaxVibCalls THEN vibCalls + 1 ELSE -1
    /\ UNCHANGED <<pVibSustain, pVibSpeed, pVibAmount, vibSampleRate>>

VibNext ==
    \/ \E t \in VibSustains : VibHostSetSustain(t)
    \/ \E s \in VibSpeeds, a \in VibAmounts : VibHostSetSpeedAmount(s, a)
    \/ \E sr \in VibSampleRates : VibSetSampleRate(sr)
    \/ VibSetFrequency
    \/ VibResetSustainCounter
    \/ VibProcess

(***************************************************************************)
(* juce::MidiMessage::getMidiNoteInHertz, 440 * 2^((n - 69) / 12), as a    *)
(* float.  Frequencies of notes count units of 1/128 of the frequency of   *)
(* note NoteBase, so that an octave's twelve semitones are the twelve      *)
(* MantissaBits-bit significands of SemitoneTable.                         *)
(***************************************************************************)
\* The lowest note the tables cover: below 0 - 24 - 7, the lowest note that
\* a pitch-bend offset or a random arpeggio step can ask for.
NoteBase == -(3 * 12)

SemitoneTable == <<128, 136, 144, 152, 161, 171, 181, 192, 203, 215, 228, 242>>

MidiNoteInHertz(n) ==
    SemitoneTable[((n - NoteBase) % 12) + 1] * 2^((n - NoteBase) \div 12)

(***************************************************************************)
(* Arpeggiator (Arpeggiator.h).                                            *)
(***************************************************************************)
\* Sample rates, speeds and root notes the model uses.
ArpSampleRates == {4}

ArpSpeeds == {0, 50}

ArpRoots == {0, 69}

\* getNextFrequency() calls that arpCalls counts after startArpeggio().
MaxArpCalls == 7

\* Values randomEngine.nextInt(Range(-7, 8)) can return.
RandomDraws == -7..7

\* The runs of six draws the model takes.
RandomRuns == {<<-7, 7, -7, 7, -7, 7>>, <<7, 7, 7, 7, 7, -7>>,
               <<0, 0, 0, 0, 0, 0>>, <<3, -2, 7, -7, 5, 1>>}

\* `numberOfValues` of generateRandomPattern().
NumberOfValues == 6

\* The patterns generateRandomPattern() can leave in `pattern`.
RandomPatterns ==
    {<<0>> \o r : r \in {q \in RandomRuns : Len(q) = NumberOfValues /\ \A i \in 1..Len(q) : q[i] \in RandomDraws}}

\* The switch of switchArpPattern(); `old` stays when no case matches.
FixedPattern(sel, old) ==
    CASE sel = 0 -> <<0, 3>>
      [] sel = 1 -> <<0, 4>>
      [] sel = 2 -> <<0, 5>>
      [] sel = 3 -> <<0, 7>>
      [] sel = 4 -> <<0, 3, 7>>
      [] sel = 5 -> <<0, 4, 7>>
      [] sel = 6 -> <<0, 4, 7, 11>>
      [] sel = 7 -> <<0, 4, 7, 11, 14>>
      [] OTHER -> old

\* switchArpPattern(): the patterns it can select for parameter value sel.
SwitchArpPattern(sel, old) ==
    IF sel = 8 THEN RandomPatterns ELSE {FixedPattern(sel, old)}

\* switchArpOctave().
SwitchArpOctave(sel, old) ==
    CASE sel = 0 -> 0
      [] sel = 1 -> 1
      [] sel = 2 -> 2
      [] OTHER -> old

\* updateSamplesPerNote(): int(sampleRate * 0.5 * (1.01 - speed)).
SamplesPerNote(sampleRate, speed) == TruncRat(sampleRate * (101 - speed), 200)

ArpInit ==
    /\ pArpSpeed = 50               \* the default of "arpSpeed"
    /\ arpPattern = <<0, 3>>        \* the constructor's switchArpPattern(), "arpPattern" = 0
    /\ arpNoteIndex = 1
    /\ arpNoteIncrement = 0
    /\ arpNumOctaves = 0
    /\ arpRootNote = 0
    /\ arpCurrentNote = 0
    /\ arpSpeed = 100
    /\ arpSampleRate = DefaultSampleRate
    /\ arpSamplesPerNote = 44100
    /\ arpSampleCounter = 0
    /\ arpCurrentPattern = 0
    /\ arpCurrentOctave = 0
    /\ arpOut = 0
    /\ arpBadRead = FALSE
    /\ arpAdvances = -1
    /\ arpCalls = -1

ArpHostSetSpeed(s) ==
    /\ ArpFrame
    /\ s # pArpSpeed
    /\ pArpSpeed' = s
    /\ arpCalls' = -1
    /\ UNCHANGED <<arpPattern, arpNoteIndex, arpNoteIncrement, arpNumOctaves, arpRootNote,
                   arpCurrentNote, arpSpeed, arpSampleRate, arpSamplesPerNote,
                   arpSampleCounter, arpCurrentPattern, arpCurrentOctave, arpOut,
                   arpBadRead, arpAdvances>>

ArpSetSampleRate(sr) ==
    /\ ArpFrame
    /\ arpSampleRate' = sr
    /\ arpSamplesPerNote' = SamplesPerNote(sr, pArpSpeed)
    /\ arpCalls' = -1
    /\ UNCHANGED <<pArpSpeed, arpPattern, arpNoteIndex, arpNoteIncrement, arpNumOctaves,
                   arpRootNote, arpCurrentNote, arpSpeed, arpSampleCounter,
                   arpCurrentPattern, arpCurrentOctave, arpOut, arpBadRead, arpAdvances>>

\* startArpeggio(root), reading "arpPattern" = pat and "arpOctave" = oct.
ArpStartArpeggio(root, pat, oct) ==
    /\ ArpFrame
    /\ arpRootNote' = root
    /\ arpCurrentNote' = root
    /\ arpNoteIncrement' = 0
    /\ arpNoteIndex' = 1
    /\ arpSampleCounter' = 0
    /\ arpCurrentPattern' = pat
    /\ arpPattern' \in SwitchArpPattern(pat, arpPattern)
    /\ arpCurrentOctave' = oct
    /\ arpNumOctaves' = SwitchArpOctave(oct, arpNumOctaves)
    /\ arpAdvances' = 0
    /\ arpCalls' = 0
    /\ UNCHANGED <<pArpSpeed, arpSpeed, arpSampleRate, arpSamplesPerNote, arpOut, arpBadRead>>

\* ArpNoteDue with a strict comparison: one call late.
ArpNoteDueLate(sampleCounter, samplesPerNote) == sampleCounter > samplesPerNote

\* `sampleCounter >= samplesPerNote`: the current note has had its samples.
ArpNoteDue(sampleCounter, samplesPerNote) == sampleCounter >= samplesPerNote

\* `noteIndex <= pattern.size()`, the guard of the pattern read.
ArpMayRead(noteIndex, size) == noteIndex <= size

\* ArpOctavesDone with a strict comparison: one octave too many.
ArpOctavesDoneLate(noteIncrement, numOctaves) == noteIncrement > numOctaves

\* `noteIncrement >= numOctaves`: the last octave of the cycle is done.
ArpOctavesDone(noteIncrement, numOctaves) == noteIncrement >= numOctaves

\* ArpHoldIndex one past the last note.
ArpHoldIndexPast(size) == size

\* ArpHoldIndex going back to the first note instead of holding the last.
ArpHoldIndexFirst(size) == 0

\* The note to hold once the pattern is exhausted and no octaves are used.
ArpHoldIndex(size) == size - 1

\* IncrementPattern without the reset of noteIncrement.
IncrementPatternUp(noteIndex, noteIncrement, numOctaves, size) ==
    IF noteIndex + 1 >= size
    THEN IF numOctaves > 0 THEN <<0, noteIncrement + 1>>
         ELSE <<ArpHoldIndex(size), noteIncrement>>
    ELSE <<noteIndex + 1, noteIncrement>>

\* incrementPattern(): the new <<noteIndex, noteIncrement>>.
IncrementPattern(noteIndex, noteIncrement, numOctaves, size) ==
    LET i == noteIndex + 1
    IN  IF i >= size
        THEN IF numOctaves > 0
             THEN <<0, IF ArpOctavesDone(noteIncrement + 1, numOctaves)
                       THEN 0 ELSE noteIncrement + 1>>
             ELSE <<ArpHoldIndex(size), noteIncrement>>
        ELSE <<i, noteIncrement>>

\* The notes of one cycle: the pattern, once per octave.
ArpCycle(size, numOctaves) == size * Max(numOctaves, 1)

\* The count of pattern advances after one more.
ArpCountAdvance(n, size, numOctaves) ==
    IF n < 0 THEN n
    ELSE IF n + 1 = 2 * ArpCycle(size, numOctaves) THEN ArpCycle(size, numOctaves)
    ELSE n + 1

ArpGetNextFrequency ==
    /\ ArpFrame
    /\ arpSampleRate \in ArpSampleRates
    /\ LET spn  == SamplesPerNote(arpSampleRate, pArpSpeed)
           size == Len(arpPattern)
           step == ArpNoteDue(arpSampleCounter, spn)
           read == step /\ ArpMayRead(arpNoteIndex, size)
           ok   == arpNoteIndex \in 0..(size - 1)
       IN  /\ arpSpeed' = pArpSpeed
           /\ arpSamplesPerNote' = spn
           /\ arpSampleCounter' = (IF step THEN 0 ELSE arpSampleCounter) + 1
           /\ IF read
              THEN /\ \E off \in (IF ok THEN {arpPattern[arpNoteIndex + 1]} ELSE RandomDraws) :
                        arpCurrentNote' = arpRootNote + off + 12 * arpNoteIncrement
                   /\ arpBadRead' = (arpBadRead \/ ~ok)
                   /\ arpNoteIndex' =
                        IncrementPattern(arpNoteIndex, arpNoteIncrement, arpNumOctaves, size)[1]
                   /\ arpNoteIncrement' =
                        IncrementPattern(arpNoteIndex, arpNoteIncrement, arpNumOctaves, size)[2]
                   /\ arpAdvances' = ArpCountAdvance(arpAdvances, size, arpNumOctaves)
              ELSE UNCHANGED <<arpCurrentNote, arpBadRead, arpNoteIndex, arpNoteIncrement,
                               arpAdvances>>
           /\ arpOut' = MidiNoteInHertz(arpCurrentNote')
    /\ arpCalls' = IF arpCalls >= 0 THEN Min(arpCalls + 1, MaxArpCalls + 1) ELSE -1
    /\ UNCHANGED <<pArpSpeed, arpPattern, arpNumOctaves, arpRootNote, arpSampleRate,
                   arpCurrentPattern, arpCurrentOctave>>

ArpNext ==
    \/ \E s \in ArpSpeeds : ArpHostSetSpeed(s)
    \/ \E sr \in ArpSampleRates : ArpSetSampleRate(sr)
    \/ \E root \in ArpRoots, pat \in 0..8, oct \in 0..2 : ArpStartArpeggio(root, pat, oct)
    \/ ArpGetNextFrequency

(***************************************************************************)
(* PitchBend (PitchBend.h).  Frequencies count the units of                *)
(* MidiNoteInHertz; "pbTime" is read in hundredths of a second.            *)
(***************************************************************************)
\* Sample rates, bend times (hundredths of a second), notes and "pbInitPitch"
\* offsets (of its range -24..24) of the model.
PbSampleRates == {100}

MaxPbTime == 6

PbTimes == 1..MaxPbTime

PbNotes == {24, 69}

PbInitPitches == {-24, -12, -7, -5, -2, -1, 0, 1, 2, 5, 7, 12, 24}

\* How many process() calls are counted after startPitchBend().
MaxPbCalls == 2 * MaxPbTime + 2

PbInit ==
    /\ pbInputNote = 0
    /\ pbInitNote = 0
    /\ pbCurrentFreq = 0
    /\ pbInputFreq = 0
    /\ pbBendSamples = 0
    /\ pbBendDelta = 0
    /\ pbSampleRate = DefaultSampleRate
    /\ pbStartFreq = 0
    /\ pbCalls = -1

\* calculateBendSamples(): static_cast<int>(updateTime() * sampleRate).
CalculateBendSamples(time, sampleRate) == TruncRat(time * sampleRate, 100)

\* setSampleRate(sr), reading "pbTime" = time.
PbSetSampleRate(sr, time) ==
    /\ PbFrame
    /\ pbSampleRate' = sr
    /\ pbBendSamples' = CalculateBendSamples(time, sr)
    /\ pbCalls' = -1
    /\ UNCHANGED <<pbInputNote, pbInitNote, pbCurrentFreq, pbInputFreq, pbBendDelta,
                   pbStartFreq>>

\* `(inputFreq - currentFreq) / bendSamples`.
BendDelta(inputFreq, currentFreq, bendSamples) ==
    FRat(FSub(inputFreq, currentFreq), bendSamples)

\* startPitchBend(note), reading "pbInitPitch" = init.  The voice sets the
\* sample rate first (startNote), so bendSamples is not 0.
PbStartPitchBend(note, init) ==
    /\ PbFrame
    /\ pbBendSamples > 0
    /\ pbInputNote' = note
    /\ pbInputFreq' = MidiNoteInHertz(note)
    /\ pbInitNote' = init
    /\ pbCurrentFreq' = MidiNoteInHertz(note + init)
    /\ pbBendDelta' = BendDelta(MidiNoteInHertz(note), MidiNoteInHertz(note + init),
                                pbBendSamples)
    /\ pbStartFreq' = MidiNoteInHertz(note + init)
    /\ pbCalls' = 0
    /\ UNCHANGED <<pbBendSamples, pbSampleRate>>

\* The condition of process(): the target is not reached yet.
PbBending(bendDelta, currentFreq, inputFreq) ==
    \/ (bendDelta > 0 /\ currentFreq < inputFreq)
    \/ (bendDelta < 0 /\ currentFreq > inputFreq)

\* The frequency process() leaves in currentFreq, which is what it returns.
PbStep(bendDelta, currentFreq, inputFreq) ==
    IF PbBending(bendDelta, currentFreq, inputFreq)
    THEN FAdd(currentFreq, bendDelta)
    ELSE inputFreq

PbProcess ==
    /\ PbFrame
    /\ pbCalls >= 0
    /\ pbCurrentFreq' = PbStep(pbBendDelta, pbCurrentFreq, pbInputFreq)
    /\ pbCalls' = Min(pbCalls + 1, MaxPbCalls)
    /\ UNCHANGED <<pbInputNote, pbInitNote, pbInputFreq, pbBendSamples, pbBendDelta,
                   pbSampleRate, pbStartFreq>>

PbNext ==
    \/ \E sr \in PbSampleRates, time \in PbTimes : PbSetSampleRate(sr, time)
    \/ \E note \in PbNotes, init \in PbInitPitches : PbStartPitchBend(note, init)
    \/ PbProcess

(***************************************************************************)
(* Bitcrusher (Bitcrusher.h): sample-and-hold rate reduction followed by   *)
(* quantisation.  bitDepthScale is a whole number that a float holds       *)
(* exactly for every depth up to 24, so it is kept as an integer.          *)
(***************************************************************************)
\* Spacing of the input samples of the model, units of 1/ONE.
BcInputStep == 4

\* The ascending sweep of the input range [-0.5, 0.5] and its points.
SweepLen == (ONE \div BcInputStep) + 1

SweepInput(i) == (i - 1) * BcInputStep - (ONE \div 2)

BcInputs == {SweepInput(i) : i \in 1..SweepLen}

\* Arguments of setSampleRateReduction() and setBitDepth().
BcReductions == 0..3

BcDepths == {0, 1, 2, 3, 4, 30}

\* process() calls that bcCalls counts.
MaxBcCalls == 7

\* Clamp without its lower limit.
ClampAbove(lo, hi, v) == Min(hi, v)

\* std::clamp(v, lo, hi) and juce::jlimit(lo, hi, v).
Clamp(lo, hi, v) == Max(lo, Min(hi, v))

BitDepthScale(depth) == 2^depth - 1

BcInit ==
    /\ bcSampleRateReduction = 1
    /\ bcBitDepth = 24
    /\ bcBitDepthScale = BitDepthScale(24)
    /\ bcLastProcessedSample = 0
    /\ bcCurrentSampleCount = 0
    /\ bcRecomputed = FALSE
    /\ bcCalls = 0
    /\ bcSweep = 0
    /\ bcSeen = {}

BcSetSampleRateReduction(reductionFactor) ==
    /\ bcSampleRateReduction' = Max(1, reductionFactor)
    /\ bcCalls' = IF bcCalls = 0 THEN 0 ELSE -1
    /\ bcSweep' = 0
    /\ bcSeen' = {}
    /\ UNCHANGED <<bcBitDepth, bcBitDepthScale, bcLastProcessedSample,
                   bcCurrentSampleCount, bcRecomputed>>
    /\ BcFrame

BcSetBitDepth(depth) ==
    /\ bcBitDepth' = Clamp(1, 24, depth)
    /\ bcBitDepthScale' = BitDepthScale(bcBitDepth')
    /\ bcSweep' = 0
    /\ bcSeen' = {}
    /\ UNCHANGED <<bcSampleRateReduction, bcLastProcessedSample, bcCurrentSampleCount,
                   bcRecomputed, bcCalls>>
    /\ BcFrame

\* BcHoldElapsed with a strict comparison: one call late.
BcHoldElapsedLate(count, reduction) == count > reduction

\* `++currentSampleCount >= sampleRateReduction`, on the incremented count.
BcHoldElapsed(count, reduction) == count >= reduction

\* BcQuantize without the final halving: the output left at full scale.
BcQuantizeFullScale(inVal, scale) ==
    FRat(RoundHalfAway(2 * inVal * scale, ONE) * ONE, scale)

\* The quantiser of process(): the doubled input scaled, rounded (std::round,
\* halves away from zero), scaled back and halved.
BcQuantize(inVal, scale) ==
    LET quantized == RoundHalfAway(2 * inVal * scale, ONE)
    IN  FRat(quantized * ONE, 2 * scale)

BcProcess(inVal) ==
    LET count == bcCurrentSampleCount + 1
        fresh == BcHoldElapsed(count, bcSampleRateReduction)
        out   == IF fresh THEN BcQuantize(inVal, bcBitDepthScale)
                 ELSE bcLastProcessedSample
        swept == bcSampleRateReduction = 1
    IN  /\ bcCurrentSampleCount' = IF fresh THEN 0 ELSE count
        /\ bcLastProcessedSample' = out
        /\ bcRecomputed' = fresh
        /\ bcCalls' = IF bcCalls >= 0 /\ bcCalls < MaxBcCalls THEN bcCalls + 1 ELSE -1
        /\ IF swept /\ bcSweep < SweepLen /\ inVal = SweepInput(bcSweep + 1)
           THEN bcSweep' = bcSweep + 1 /\ bcSeen' = bcSeen \cup {out}
           ELSE IF swept /\ inVal = SweepInput(1)
           THEN bcSweep' = 1 /\ bcSeen' = {out}
           ELSE bcSweep' = 0 /\ bcSeen' = {}
        /\ UNCHANGED <<bcSampleRateReduction, bcBitDepth, bcBitDepthScale>>
        /\ BcFrame

BcNext ==
    \/ \E n \in BcReductions : BcSetSampleRateReduction(n)
    \/ \E d \in BcDepths : BcSetBitDepth(d)
    \/ \E x \in BcInputs : BcProcess(x)

(***************************************************************************)
(* Delay (Delay.h): a circular buffer read with linear interpolation, with *)
(* feedback and a dry/wet mix.  `delayTime` and `size` have no initialiser *)
(* in the class: until a setter assigns them, a read of either yields any  *)
(* of the indeterminate values below.                                      *)
(* A call that indexes the buffer out of range, or takes a remainder by    *)
(* zero, has undefined behaviour: it raises dlFault and the object is not  *)
(* followed further.                                                       *)
(***************************************************************************)
\* Arguments of setSize().
DlSizes == {0, 1, 2}

\* Arguments of setDelayTime(), units of 1/ONE: negative, zero, fractional,
\* whole up to the size and beyond it.
DlTimes == {-ONE, 0, ONE \div 2, ONE, 2 * ONE, 3 * ONE}

\* Arguments of setFeedback(), setDryWetMix() and process().
DlFeedbacks == {ONE}

DlMixes == {2 * ONE}

DlInputs == {0, ONE}

\* process() calls followed in one run.
MaxDlCalls == 4

\* What a read of a member without initialiser may yield before it is assigned.
DlIndeterminateSizes == {0, 2}

DlIndeterminateTimes == {0, ONE}

DlReadSize == IF "size" \in dlUnset THEN DlIndeterminateSizes ELSE {dlSize}

DlReadDelayTime == IF "delayTime" \in dlUnset THEN DlIndeterminateTimes ELSE {dlDelayTime}

DlNoCall == [in |-> 0, out |-> 0, wet |-> 0, bypass |-> FALSE, called |-> FALSE]

DlInit ==
    /\ dlBuffer = <<>>
    /\ dlReadPos = ONE
    /\ dlWritePos = 0
    /\ dlFeedback = ONE \div 2
    /\ dlDelayTime = 0
    /\ dlSize = 0
    /\ dlUnset = {"delayTime", "size"}
    /\ dlDryWetMix = FRat(2 * ONE, 10)
    /\ dlLast = DlNoCall
    /\ dlFault = FALSE
    /\ dlUse = "new"
    /\ dlEcho = -1
    /\ dlCalls = 0

\* std::vector::resize(n, 0.0f): truncate, or append zeros.
Resize(buffer, n) ==
    [i \in 1..n |-> IF i <= Len(buffer) THEN buffer[i] ELSE 0]

DlSetSize(newSize) ==
    /\ ~dlFault
    /\ dlSize' = newSize
    /\ dlUnset' = dlUnset \ {"size"}
    /\ dlBuffer' = Resize(dlBuffer, newSize)
    /\ dlUse' = IF dlUse \in {"new", "sized"} /\ newSize > 0 THEN "sized" ELSE "off"
    /\ dlEcho' = -1
    /\ dlLast' = DlNoCall
    /\ UNCHANGED <<dlReadPos, dlWritePos, dlFeedback, dlDelayTime, dlDryWetMix,
                   dlFault, dlCalls>>
    /\ DlFrame

DlSetFeedback(fb) ==
    /\ ~dlFault
    /\ dlFeedback' = Clamp(0, FRat(99 * ONE, 100), fb)
    /\ dlEcho' = -1
    /\ dlLast' = DlNoCall
    /\ UNCHANGED <<dlBuffer, dlReadPos, dlWritePos, dlDelayTime, dlSize, dlDryWetMix,
                   dlFault, dlUse, dlCalls, dlUnset>>
    /\ DlFrame

\* `if (readPos < 0) readPos += size;`, once.
DlWrapRead(pos, size) == IF pos < 0 THEN FAdd(pos, size * ONE) ELSE pos

DlSetDelayTime(time) ==
    /\ ~dlFault
    /\ dlDelayTime' = time
    /\ dlUnset' = dlUnset \ {"delayTime"}
    /\ \E size \in DlReadSize : dlReadPos' = DlWrapRead(FSub(dlWritePos, time), size)
    /\ dlUse' = IF dlUse \in {"sized", "ready"} /\ time >= 0 THEN "ready" ELSE "off"
    /\ dlEcho' = -1
    /\ dlLast' = DlNoCall
    /\ UNCHANGED <<dlBuffer, dlWritePos, dlFeedback, dlSize, dlDryWetMix, dlFault,
                   dlCalls>>
    /\ DlFrame

DlSetDryWetMix(mix) ==
    /\ ~dlFault
    /\ dlDryWetMix' = Clamp(0, ONE, mix)
    /\ dlLast' = DlNoCall
    /\ UNCHANGED <<dlBuffer, dlReadPos, dlWritePos, dlFeedback, dlDelayTime, dlSize,
                   dlFault, dlUse, dlEcho, dlCalls, dlUnset>>
    /\ DlFrame

\* DlActive with the bypass test off by one: a zero delay time runs the line.
DlActiveZeroRuns(delayTime) == delayTime >= 0

\* `delayTime > 0`: the delay line runs; otherwise process() returns its input.
DlActive(delayTime) == delayTime > 0

\* The C++ remainder a % n (n # 0), which takes the sign of a.
CRem(a, n) == IF a >= 0 THEN a % Abs(n) ELSE -((-a) % Abs(n))

\* The indices linearInterpolation() reads; indexB only when size # 0.
DlIndexA(readPos) == FloorRat(readPos, ONE)

DlIndexB(readPos, size) == CRem(DlIndexA(readPos) + 1, size)

DlInRange(index, buffer) == index >= 0 /\ index < Len(buffer)

\* Whether a process() call with the delay line running stays inside the buffer.
DlDefined(readPos, writePos, size, buffer) ==
    /\ size # 0
    /\ DlInRange(DlIndexA(readPos), buffer)
    /\ DlInRange(DlIndexB(readPos, size), buffer)
    /\ writePos % ONE = 0
    /\ DlInRange(writePos \div ONE, buffer)

LinearInterpolation(readPos, size, buffer) ==
    LET indexA == DlIndexA(readPos)
        indexB == DlIndexB(readPos, size)
        ValA   == buffer[indexA + 1]
        ValB   == buffer[indexB + 1]
        frac   == FSub(readPos, indexA * ONE)
    IN  FAdd(FMul(FSub(ONE, frac), ValA), FMul(frac, ValB))

\* DlFeedIn without the feedback gain.
DlFeedInUnscaled(inVal, outVal, feedback) == FAdd(inVal, outVal)

\* `inVal + outVal * feedback`, the value process() writes to the buffer.
DlFeedIn(inVal, outVal, feedback) == FAdd(inVal, FMul(outVal, feedback))

\* `pos++; if (pos >= size) pos -= size;`
DlAdvance(pos, size) ==
    LET next == FAdd(pos, ONE)
    IN  IF next >= size * ONE THEN FSub(next, size * ONE) ELSE next

\* Whether this process() call puts a unit impulse into a silent delay line
\* whose delay is a whole number of samples within the buffer.
DlImpulse(inVal) ==
    /\ inVal = ONE
    /\ dlUse = "ready"
    /\ \A i \in 1..Len(dlBuffer) : dlBuffer[i] = 0
    /\ dlDelayTime % ONE = 0
    /\ dlDelayTime > 0
    /\ dlDelayTime <= dlSize * ONE

DlProcess(inVal) ==
    /\ ~dlFault
    /\ dlCalls < MaxDlCalls
    /\ \E delayTime \in DlReadDelayTime, size \in DlReadSize :
        IF ~DlActive(delayTime)
        THEN /\ dlLast' = [in |-> inVal, out |-> inVal, wet |-> 0, bypass |-> TRUE,
                          called |-> TRUE]
             /\ dlCalls' = dlCalls + 1
             /\ UNCHANGED <<dlBuffer, dlReadPos, dlWritePos, dlFault>>
        ELSE IF ~DlDefined(dlReadPos, dlWritePos, size, dlBuffer)
        THEN /\ dlFault' = TRUE
             /\ UNCHANGED <<dlBuffer, dlReadPos, dlWritePos, dlLast, dlCalls>>
        ELSE LET outVal == LinearInterpolation(dlReadPos, size, dlBuffer)
             IN  /\ dlBuffer' = [dlBuffer EXCEPT ![(dlWritePos \div ONE) + 1] =
                                     DlFeedIn(inVal, outVal, dlFeedback)]
                 /\ dlWritePos' = DlAdvance(dlWritePos, size)
                 /\ dlReadPos' = DlAdvance(dlReadPos, size)
                 /\ dlLast' = [in |-> inVal,
                               out |-> FAdd(FMul(inVal, FSub(ONE, dlDryWetMix)),
                                            FMul(outVal, dlDryWetMix)),
                               wet |-> outVal, bypass |-> FALSE, called |-> TRUE]
                 /\ dlCalls' = dlCalls + 1
                 /\ UNCHANGED dlFault
    /\ dlUse' = IF dlUse = "ready" THEN "ready" ELSE "off"
    /\ dlEcho' = IF DlImpulse(inVal) THEN 0
                 ELSE IF dlEcho >= 0 /\ inVal = 0 THEN dlEcho + 1
                 ELSE -1
    /\ UNCHANGED <<dlFeedback, dlDelayTime, dlSize, dlDryWetMix, dlUnset>>
    /\ DlFrame

DlNext ==
    \/ \E n \in DlSizes : DlSetSize(n)
    \/ \E fb \in DlFeedbacks : DlSetFeedback(fb)
    \/ \E t \in DlTimes : DlSetDelayTime(t)
    \/ \E mix \in DlMixes : DlSetDryWetMix(mix)
    \/ \E x \in DlInputs : DlProcess(x)

(***************************************************************************)
(* ChiptuneSynthVoice (ChiptuneSynthesiser.h): note-on, note-off and the   *)
(* render loop, as far as the playing flag and the envelope go.  The       *)
(* envelope is a juce::ADSR, a library class: it is modelled by its        *)
(* contract (Idle, Attack, Decay, Sustain, Release; isActive() false only  *)
(* in Idle; reset() returns to Idle at level 0).  Stage times are kept as  *)
(* whole numbers of samples (time * sampleRate), levels in units of 1/ONE. *)
(***************************************************************************)
\* Stage lengths in samples and sustain levels of the "attack", "decay",
\* "sustain", "release" parameters; attack and release are never 0, decay may be.
EnvAttacks == {2, 4}

EnvDecays == {0, 2}

EnvSustains == {0, ONE \div 2, ONE}

EnvReleases == {1, 2}

\* Largest numSamples of a renderNextBlock() call.
MaxBlock == 2

\* A default-constructed juce::ADSR: attack, decay, release 0.1 s, sustain 1.
EnvNew ==
    [state |-> "idle", val |-> 0, attackN |-> DefaultSampleRate \div 10,
     decayN |-> DefaultSampleRate \div 10, sustain |-> ONE,
     releaseN |-> DefaultSampleRate \div 10,
     releaseRate |-> FRat(ONE, DefaultSampleRate \div 10)]

\* juce::ADSR::isActive().
EnvIsActive(env) == env.state # "idle"

\* juce::ADSR::reset().
EnvReset(env) == [env EXCEPT !.state = "idle", !.val = 0]

\* attackRate > 0 and decayRate > 0: the stage has a length, and a distance
\* to cover (the quotient of two positive floats is positive).
EnvHasAttack(env) == env.attackN > 0

EnvHasDecay(env) == env.decayN > 0 /\ env.sustain < ONE

\* The per-sample steps of the attack and decay stages.
EnvAttackRate(env) == IF env.attackN > 0 THEN FRat(ONE, env.attackN) ELSE -ONE

EnvDecayRate(env) ==
    IF env.decayN > 0 THEN FRat(FSub(ONE, env.sustain), env.decayN) ELSE -ONE

\* juce::ADSR::noteOn(): the level is left as it is when there is an attack.
EnvNoteOn(env) ==
    IF EnvHasAttack(env) THEN [env EXCEPT !.state = "attack"]
    ELSE IF EnvHasDecay(env) THEN [env EXCEPT !.state = "decay", !.val = ONE]
    ELSE [env EXCEPT !.state = "sustain", !.val = env.sustain]

\* juce::ADSR::noteOff().
EnvNoteOff(env) ==
    IF env.state = "idle" THEN env
    ELSE IF env.releaseN > 0
    THEN [env EXCEPT !.state = "release", !.releaseRate = FRat(env.val, env.releaseN)]
    ELSE EnvReset(env)

\* juce::ADSR::setParameters(): the parameters, and the rates recalculated.
EnvSetParameters(env, a, d, s, r) ==
    [env EXCEPT !.attackN = a, !.decayN = d, !.sustain = s, !.releaseN = r,
                !.releaseRate = IF r > 0 THEN FRat(s, r) ELSE -ONE]

\* juce::ADSR::getNextSample(): the envelope after it.
EnvGetNextSample(env) ==
    CASE env.state = "idle" -> env
      [] env.state = "attack" ->
            LET v == FAdd(env.val, EnvAttackRate(env))
            IN  IF v >= ONE
                THEN [env EXCEPT !.val = ONE,
                                 !.state = IF EnvHasDecay(env) THEN "decay"
                                           ELSE "sustain"]
                ELSE [env EXCEPT !.val = v]
      [] env.state = "decay" ->
            LET v == FSub(env.val, EnvDecayRate(env))
            IN  IF v <= env.sustain
                THEN [env EXCEPT !.val = env.sustain, !.state = "sustain"]
                ELSE [env EXCEPT !.val = v]
      [] env.state = "sustain" -> [env EXCEPT !.val = env.sustain]
      [] env.state = "release" ->
            LET v == FSub(env.val, env.releaseRate)
            IN  IF v <= 0 THEN EnvReset(env) ELSE [env EXCEPT !.val = v]

VoInit ==
    /\ voPlaying = FALSE
    /\ voEnv = EnvNew
    /\ voHeld = FALSE
    /\ voOp = "none"
    /\ voTicks = 0
    /\ voBefore = [active |-> FALSE, val |-> 0]

\* The envelope calls of startNote(): reset(), noteOn(), then the parameters.
VoStartEnvelope(env, a, d, s, r) ==
    EnvSetParameters(EnvNoteOn(EnvReset(env)), a, d, s, r)

\* startNote() with the envelope parameters a, d, s, r.
VoStartNote(a, d, s, r) ==
    /\ voPlaying' = TRUE
    /\ voEnv' = VoStartEnvelope(voEnv, a, d, s, r)
    /\ voHeld' = TRUE
    /\ voOp' = "start"
    /\ voBefore' = [active |-> EnvIsActive(voEnv), val |-> voEnv.val]
    /\ UNCHANGED voTicks
    /\ VoFrame

\* stopNote(): one per note-on, or on a voice whose envelope is idle.
VoStopNote ==
    /\ voHeld \/ ~EnvIsActive(voEnv)
    /\ voEnv' = EnvNoteOff(voEnv)
    /\ voHeld' = FALSE
    /\ voOp' = "stop"
    /\ voBefore' = [active |-> FALSE, val |-> 0]
    /\ UNCHANGED <<voPlaying, voTicks>>
    /\ VoFrame

\* The flag left alone however the envelope stands.
VoStillPlayingKept(playing, env) == playing

\* `if (!env.isActive())` at the end of a sample: the new playing flag.
VoStillPlaying(playing, env) == IF ~EnvIsActive(env) THEN FALSE ELSE playing

\* One pass of the sample loop: the modules, the envelope, the playing flag.
VoSample(st) ==
    LET env == EnvGetNextSample(st.env)
    IN  [env |-> env, playing |-> VoStillPlaying(st.playing, env), ticks |-> st.ticks + 1]

RECURSIVE VoSamples(_, _)
VoSamples(st, n) == IF n = 0 THEN st ELSE VoSamples(VoSample(st), n - 1)

\* renderNextBlock() for numSamples samples: the loop runs when the voice is
\* playing at the start of the block, and then to the end of the block.
VoRenderNextBlock(numSamples) ==
    LET st  == [env |-> voEnv, playing |-> voPlaying, ticks |-> 0]
        end == IF voPlaying THEN VoSamples(st, numSamples) ELSE st
    IN  /\ voEnv' = end.env
        /\ voPlaying' = end.playing
        /\ voTicks' = end.ticks
        /\ voOp' = "render"
        /\ voBefore' = [active |-> FALSE, val |-> 0]
        /\ UNCHANGED voHeld
        /\ VoFrame

VoRender == \E n \in 1..MaxBlock : VoRenderNextBlock(n)

VoNext ==
    \/ \E a \in EnvAttacks, d \in EnvDecays, s \in EnvSustains, r \in EnvReleases :
            VoStartNote(a, d, s, r)
    \/ VoStopNote
    \/ VoRender

(***************************************************************************)
(* The master delay (PluginProcessor.cpp): prepareToPlay() builds a fresh  *)
(* Delay of three seconds, processBlock() sets its delay time, feedback    *)
(* and mix from the parameters and runs process() on every sample of the   *)
(* block.  Sample rates are a few samples per second, so that the buffer   *)
(* stays small; an index out of range raises dlFault.                      *)
(***************************************************************************)
\* Sample rates handed to prepareToPlay().
MdSampleRates == {1, 3}

\* Values of the "delayTime" parameter, seconds in units of 1/ONE, within
\* [0, 1]: zero, the smallest, a third (a little over one sample at rate 3),
\* a half, and one.
MdDelayTimes == {0, 1, ONE \div 3 + 1, ONE \div 2, ONE}

MdInit == mdSampleRate = 0

\* prepareToPlay(sampleRate): Delay(), setSize(sampleRate * 3),
\* setDelayTime(sampleRate * 0.5), setFeedback(0.1), setDryWetMix(0.2).
MdPrepareToPlay(sampleRate) ==
    LET size == 3 * sampleRate
        time == FRat(sampleRate * ONE, 2)
    IN  /\ mdSampleRate' = sampleRate
        /\ dlSize' = size
        /\ dlBuffer' = Resize(<<>>, size)
        /\ dlWritePos' = 0
        /\ dlDelayTime' = time
        /\ dlReadPos' = DlWrapRead(FSub(0, time), size)
        /\ dlFeedback' = Clamp(0, FRat(99 * ONE, 100), FRat(ONE, 10))
        /\ dlDryWetMix' = Clamp(0, ONE, FRat(2 * ONE, 10))
        /\ dlUnset' = {}
        /\ dlFault' = FALSE
        /\ dlUse' = "ready"
        /\ dlEcho' = -1
        /\ dlLast' = DlNoCall
        /\ UNCHANGED dlCalls
        /\ MdFrame

\* Delay::process(inVal) on the delay line st.
MdSample(st, inVal) ==
    IF st.fault THEN st
    ELSE IF ~DlActive(st.delayTime)
    THEN [st EXCEPT !.last = [in |-> inVal, out |-> inVal, wet |-> 0,
                              bypass |-> TRUE, called |-> TRUE]]
    ELSE IF ~DlDefined(st.readPos, st.writePos, st.size, st.buffer)
    THEN [st EXCEPT !.fault = TRUE]
    ELSE LET outVal == LinearInterpolation(st.readPos, st.size, st.buffer)
         IN  [st EXCEPT !.buffer = [st.buffer EXCEPT ![(st.writePos \div ONE) + 1] =
                                        DlFeedIn(inVal, outVal, st.feedback)],
                        !.writePos = DlAdvance(st.writePos, st.size),
                        !.readPos = DlAdvance(st.readPos, st.size),
                        !.last = [in |-> inVal,
                                  out |-> FAdd(FMul(inVal, FSub(ONE, st.mix)),
                                               FMul(outVal, st.mix)),
                                  wet |-> outVal, bypass |-> FALSE, called |-> TRUE]]

\* The sample loop of processBlock() over the block `samples`.
RECURSIVE MdSamples(_, _)
MdSamples(st, samples) ==
    IF samples = <<>> THEN st
    ELSE MdSamples(MdSample(st, Head(samples)), Tail(samples))

\* processBlock() with the parameters delayTime, feedback, dryWetMix and the
\* block `samples` coming out of the bitcrusher.
MdProcessBlock(delayTime, feedback, mix, samples) ==
    LET time == FRound(mdSampleRate * delayTime)
        st   == [buffer |-> dlBuffer, size |-> dlSize, delayTime |-> time,
                 readPos |-> DlWrapRead(FSub(dlWritePos, time), dlSize),
                 writePos |-> dlWritePos,
                 feedback |-> Clamp(0, FRat(99 * ONE, 100), feedback),
                 mix |-> Clamp(0, ONE, mix), fault |-> FALSE, last |-> DlNoCall]
        end  == MdSamples(st, samples)
    IN  /\ mdSampleRate > 0
        /\ ~dlFault
        /\ dlCalls + Len(samples) <= MaxDlCalls
        /\ dlBuffer' = end.buffer
        /\ dlReadPos' = end.readPos
        /\ dlWritePos' = end.writePos
        /\ dlDelayTime' = time
        /\ dlFeedback' = end.feedback
        /\ dlDryWetMix' = end.mix
        /\ dlFault' = end.fault
        /\ dlLast' = end.last
        /\ dlCalls' = dlCalls + Len(samples)
        /\ dlEcho' = -1
        /\ UNCHANGED <<dlSize, dlUse, dlUnset, mdSampleRate>>
        /\ MdFrame

MdNext ==
    \/ \E sampleRate \in MdSampleRates : MdPrepareToPlay(sampleRate)
    \/ \E delayTime \in MdDelayTimes, feedback \in DlFeedbacks, mix \in DlMixes,
          samples \in UNION {[1..n -> DlInputs] : n \in 1..MaxBlock} :
            MdProcessBlock(delayTime, feedback, mix, samples)

(***************************************************************************)
(* PulseWidthModulation (PulseWidthModulation.h): the pulse width index    *)
(* and the target handed to the smoother.  The smoothed value process()    *)
(* returns follows the target and is not part of the state here.           *)
(***************************************************************************)
\* Sample rates the host sets in the model (scaled down from 44100).
PwmSampleRates == {8}

\* Settings of pwmSustain (0, 3/16 s, 1/4 s), pwmMode and pwmRate.
PwmSettings ==
    [sustain : {0, (3 * ONE) \div 16, ONE \div 4}, mode : 0..5, rate : {ONE \div 2}]

\* pulseWidths {0.125, 0.25, 0.5}, by pwIndex 0, 1, 2.
PulseWidths == <<ONE \div 8, ONE \div 4, ONE \div 2>>

\* The switch of the sustain branch: the resting preset of a mode.
PwmRestingIndex(mode) == mode \div 2

\* CalculateIndex with the whole factors 2 and 3 in place of 1.99 and 2.99.
CalculateIndexWhole(oscOutput, mode) ==
    CASE mode = 0 -> TruncRat(oscOutput * 2, ONE)
      [] mode = 1 -> TruncRat(oscOutput * 3, ONE)
      [] mode = 2 -> TruncRat(oscOutput * 2, ONE) + 1
      [] mode = 3 -> TruncRat(FSub(ONE, oscOutput) * 2, ONE)
      [] mode = 4 -> TruncRat(FSub(ONE, oscOutput) * 2, ONE) + 1
      [] mode = 5 -> TruncRat(FSub(ONE, oscOutput) * 3, ONE)

\* calculateIndex(): the index for the oscillator output, by mode; 1.99 and
\* 2.99 are doubles, the product is truncated.
CalculateIndex(oscOutput, mode) ==
    CASE mode = 0 -> TruncRat(oscOutput * 199, 100 * ONE)
      [] mode = 1 -> TruncRat(oscOutput * 299, 100 * ONE)
      [] mode = 2 -> TruncRat(oscOutput * 199, 100 * ONE) + 1
      [] mode = 3 -> TruncRat(FSub(ONE, oscOutput) * 199, 100 * ONE)
      [] mode = 4 -> TruncRat(FSub(ONE, oscOutput) * 199, 100 * ONE) + 1
      [] mode = 5 -> TruncRat(FSub(ONE, oscOutput) * 299, 100 * ONE)

PwmInit ==
    /\ pPwm = [sustain |-> 0, mode |-> 0, rate |-> ONE \div 2]
    /\ pwmSampleRate = DefaultSampleRate
    /\ pwmOsc = PhasorNew
    /\ pwmCurrentPwMode = 0
    /\ pwmPwIndex = 0
    /\ pwmSustainSamples = 0
    /\ pwmSustainCounter = 0
    /\ pwmTarget = 0
    /\ pwmPinned = FALSE
    /\ pwmCalls = -1

\* The host moves the PWM controls.
PwmHostSet(p) ==
    /\ p # pPwm
    /\ pPwm' = p
    /\ pwmCalls' = -1
    /\ UNCHANGED <<pwmSampleRate, pwmOsc, pwmCurrentPwMode, pwmPwIndex,
                   pwmSustainSamples, pwmSustainCounter, pwmTarget, pwmPinned>>
    /\ PwmFrame

PwmSetSampleRate(newSampleRate) ==
    /\ pwmSampleRate' = newSampleRate
    /\ pwmOsc' = PhasorSetSampleRate(pwmOsc, newSampleRate)
    /\ pwmCalls' = IF newSampleRate = pwmSampleRate THEN pwmCalls ELSE -1
    /\ UNCHANGED <<pPwm, pwmCurrentPwMode, pwmPwIndex, pwmSustainSamples,
                   pwmSustainCounter, pwmTarget, pwmPinned>>
    /\ PwmFrame

\* setRate(): the oscillator frequency, ten times the rate parameter.
PwmSetRate ==
    /\ pwmOsc' = PhasorSetFrequency(pwmOsc, FMul(pPwm.rate, 10 * ONE))
    /\ UNCHANGED <<pPwm, pwmSampleRate, pwmCurrentPwMode, pwmPwIndex,
                   pwmSustainSamples, pwmSustainCounter, pwmTarget, pwmPinned,
                   pwmCalls>>
    /\ PwmFrame

PwmResetSustainCounter ==
    /\ pwmSustainCounter' = 0
    /\ pwmCalls' = 0
    /\ UNCHANGED <<pPwm, pwmSampleRate, pwmOsc, pwmCurrentPwMode, pwmPwIndex,
                   pwmSustainSamples, pwmTarget, pwmPinned>>
    /\ PwmFrame

\* process(): setRate(), updateSustainParameters() (the same statements as
\* Vibrato's, then the mode), and the sustain branch or calculateIndex().
PwmProcess ==
    /\ pwmSampleRate \in PwmSampleRates
    /\ LET osc      == PhasorSetFrequency(pwmOsc, FMul(pPwm.rate, 10 * ONE))
           changed  == VibSustainChanged(pPwm.sustain, pwmSampleRate, pwmSustainSamples)
           samples  == IF changed THEN VibSustainInSamples(pPwm.sustain, pwmSampleRate)
                                  ELSE pwmSustainSamples
           newMode  == pPwm.mode
           counter  == IF changed \/ newMode # pwmCurrentPwMode THEN 0
                       ELSE pwmSustainCounter
           pinned   == VibInSustain(counter, samples)
           swept    == PhasorUpdatePhase(osc)
           index    == IF pinned THEN PwmRestingIndex(newMode)
                       ELSE CalculateIndex(swept.phase, newMode)
       IN  /\ pwmSustainSamples' = samples
           /\ pwmCurrentPwMode' = newMode
           /\ pwmSustainCounter' = IF pinned THEN counter + 1 ELSE counter
           /\ pwmOsc' = IF pinned THEN osc ELSE swept
           /\ pwmPwIndex' = index
           /\ pwmTarget' = PulseWidths[index + 1]
           /\ pwmPinned' = pinned
    /\ pwmCalls' = IF pwmCalls >= 0 /\ pwmCalls < MaxVibCalls THEN pwmCalls + 1 ELSE -1
    /\ UNCHANGED <<pPwm, pwmSampleRate>>
    /\ PwmFrame

PwmNext ==
    \/ \E p \in PwmSettings : PwmHostSet(p)
    \/ \E sr \in PwmSampleRates : PwmSetSampleRate(sr)
    \/ PwmSetRate
    \/ PwmResetSustainCounter
    \/ PwmProcess

(***************************************************************************)
(* Noise (Noise.h): a wavetable of wtSize entries read at the truncated    *)
(* phase.  The phase and the increment are doubles; here both count units  *)
(* of wtSize / sampleRate table steps, in which the increment is the       *)
(* frequency itself and wtSize is the sample rate: the index int(phase)    *)
(* is inside the table exactly when 0 <= nsPhase < nsSampleRate.           *)
(* The voice calls setFrequency() before every process(), so `increment`,  *)
(* which has no initialiser, is never read before it is assigned.          *)
(***************************************************************************)
\* 44100 Hz, the default and the host's sample rate, in the units of
\* MidiNoteInHertz (125.25 to the Hz).
NsSampleRate == DefaultSampleRate * 125 + DefaultSampleRate \div 4

\* Notes whose frequency the voice passes on: MIDI notes 0, 69 and 127, and
\* 127 with the Major9 pattern's last step (14) in the second octave (12).
NsNotes == {0, 69, 127, 127 + 14 + 12}

\* process() calls followed.
MaxNsCalls == 6

NsInit ==
    /\ nsSampleRate = NsSampleRate
    /\ nsFrequency = MidiNoteInHertz(69)
    /\ nsPhase = 0
    /\ nsFault = FALSE
    /\ nsCalls = 0

\* setSampleRate(getSampleRate()), the host running at the default rate.
NsSetSampleRate ==
    /\ ~nsFault
    /\ nsSampleRate' = NsSampleRate
    /\ UNCHANGED <<nsFrequency, nsPhase, nsFault, nsCalls>>
    /\ NsFrame

\* setFrequency(getMidiNoteInHertz(note)).
NsSetFrequency(note) ==
    /\ ~nsFault
    /\ nsFrequency' = MidiNoteInHertz(note)
    /\ UNCHANGED <<nsSampleRate, nsPhase, nsFault, nsCalls>>
    /\ NsFrame

\* `phase += increment; if (phase >= wtSize) phase -= wtSize;`
NsAdvance(phase, increment, size) ==
    IF phase + increment >= size THEN phase + increment - size ELSE phase + increment

\* process(): the table read at int(phase), then the phase advanced.
NsProcess ==
    /\ ~nsFault
    /\ nsCalls < MaxNsCalls
    /\ nsCalls' = nsCalls + 1
    /\ IF 0 <= nsPhase /\ nsPhase < nsSampleRate
       THEN /\ nsPhase' = NsAdvance(nsPhase, nsFrequency, nsSampleRate)
            /\ UNCHANGED nsFault
       ELSE /\ nsFault' = TRUE
            /\ UNCHANGED nsPhase
    /\ UNCHANGED <<nsSampleRate, nsFrequency>>
    /\ NsFrame

NsNext ==
    \/ NsSetSampleRate
    \/ \E note \in NsNotes : NsSetFrequency(note)
    \/ NsProcess

(***************************************************************************)
(* The triangle case of the voice (ChiptuneSynthesiser.h): TriOsc, and the *)
(* Bitcrusher set to reduction 2 and depth 4 when the distortion is on.    *)
(* An oscillator period runs from one wrap of the phase to the next.       *)
(***************************************************************************)
\* Sample rate of the voice in the model (whole Hz, scaled down from 44100).
TriSampleRate == ONE

\* Frequencies of the played notes, units of 1/ONE Hz: periods of 64, 32 and
\* 16 samples.
TriFreqs == {ONE, 2 * ONE, 4 * ONE}

\* TriOsc::output(p): the linear rise for p < 0.5, the quadratic fall after
\* it, halved to [-0.5, 0.5].
TriOscOutput(p) ==
    IF 2 * p < ONE
    THEN FRat(FSub(FMul(p, 4 * ONE), ONE), 2)
    ELSE LET t == FMul(FSub(p, ONE \div 2), 2 * ONE)
         IN  FRat(FSub(ONE, FMul(2 * ONE, FMul(t, t))), 2)

TriInit ==
    /\ triWave = PhasorNew
    /\ triCrusher = [count |-> 0, last |-> 0]
    /\ triWhole = FALSE
    /\ triSeen = {}

\* startNote() with the triangle selected: setSampleRate(), setFrequency().
TriStartNote(f) ==
    /\ triWave' = PhasorSetFrequency(PhasorSetSampleRate(triWave, TriSampleRate), f)
    /\ triWhole' = FALSE
    /\ triSeen' = {}
    /\ UNCHANGED triCrusher
    /\ TriFrame

\* One sample of renderNextBlock(), triangle case: setFrequency(freq), then
\* either the crushed sample (setSampleRateReduction(2), setBitDepth(4),
\* process(rawSample)) or the smooth one.
TriRender(distortion) ==
    LET wave    == PhasorUpdatePhase(PhasorSetFrequency(triWave, triWave.frequency))
        raw     == TriOscOutput(wave.phase)
        count   == triCrusher.count + 1
        fresh   == BcHoldElapsed(count, Max(1, 2))
        out     == IF fresh THEN BcQuantize(raw, BitDepthScale(Clamp(1, 24, 4)))
                   ELSE triCrusher.last
        wrapped == wave.phase < triWave.phase
    IN  /\ triWave.phaseDelta > 0
        /\ triWave' = wave
        /\ IF distortion
           THEN /\ triCrusher' = [count |-> IF fresh THEN 0 ELSE count, last |-> out]
                /\ triWhole' = (triWhole \/ wrapped)
                /\ triSeen' = IF wrapped THEN {out}
                              ELSE IF triWhole THEN triSeen \cup {out}
                              ELSE {}
           ELSE /\ triWhole' = FALSE
                /\ triSeen' = {}
                /\ UNCHANGED triCrusher
        /\ TriFrame

TriNext ==
    \/ \E f \in TriFreqs : TriStartNote(f)
    \/ \E distortion \in BOOLEAN : TriRender(distortion)

(***************************************************************************)
(* SquareOsc (PolyBLEPOscillator.h): the naive pulse with a PolyBLEP       *)
(* correction around its two edges, phase 0 and phase pulseWidth.          *)
(***************************************************************************)
\* Sample rate of the oscillator in the model (whole Hz).
SqSampleRate == ONE

\* Frequencies, units of 1/ONE Hz: phase deltas of 1, 3, 5, 7 and 9 sixty-fourths.
SqFreqs == {ONE, 3 * ONE, 5 * ONE, 7 * ONE, 9 * ONE}

\* Arguments of setPulseWidth(): the three presets, and 0.75.
SqPulseWidths == {ONE \div 8, ONE \div 4, ONE \div 2, (3 * ONE) \div 4}

\* poly_blep() switched off.
PolyBlepOff(t, dt) == 0

\* poly_blep(t), dt being phaseDelta.
PolyBlep(t, dt) ==
    IF t < dt
    THEN LET x == FRat(t * ONE, dt)
         IN  FRound(FSub(FAdd(x, x), FMul(x, x)) - ONE)
    ELSE IF t > FSub(ONE, dt)
    THEN LET x == FRat((t - ONE) * ONE, dt)
         IN  FRound(FAdd(FAdd(FMul(x, x), x), x) + ONE)
    ELSE 0

\* `(p < pulseWidth) ? 1.0f : -1.0f`
SquareNaive(p, pulseWidth) == IF p < pulseWidth THEN ONE ELSE -ONE

\* SquareOsc::output(p); fmod(p + (1.0 - pulseWidth), 1.0f) is exact in doubles.
SquareOscOutput(p, pulseWidth, dt) ==
    LET rising  == FAdd(SquareNaive(p, pulseWidth), PolyBlep(p, dt))
        falling == PolyBlep(FRound((p + (ONE - pulseWidth)) % ONE), dt)
    IN  FSub(rising, falling)

SqInit ==
    /\ squareOsc = PhasorNew
    /\ sqPulseWidth = ONE \div 2
    /\ sqOut = 0
    /\ sqPrev = [phase |-> 0, out |-> 0]
    /\ sqRun = 0

\* setSampleRate() and setFrequency(), as startNote() calls them.
SqStartNote(f) ==
    /\ squareOsc' = PhasorSetFrequency(PhasorSetSampleRate(squareOsc, SqSampleRate), f)
    /\ sqRun' = 0
    /\ UNCHANGED <<sqPulseWidth, sqOut, sqPrev>>
    /\ SqFrame

SqSetPulseWidth(pw) ==
    /\ sqPulseWidth' = pw
    /\ sqRun' = 0
    /\ UNCHANGED <<squareOsc, sqOut, sqPrev>>
    /\ SqFrame

\* Phasor::process(): updatePhase(), then output(phase).
SqProcess ==
    LET osc == PhasorUpdatePhase(squareOsc)
    IN  /\ squareOsc.phaseDelta > 0
        /\ squareOsc' = osc
        /\ sqOut' = SquareOscOutput(osc.phase, sqPulseWidth, osc.phaseDelta)
        /\ sqPrev' = [phase |-> squareOsc.phase, out |-> sqOut]
        /\ sqRun' = Min(2, sqRun + 1)
        /\ UNCHANGED sqPulseWidth
        /\ SqFrame

SqNext ==
    \/ \E f \in SqFreqs : SqStartNote(f)
    \/ \E pw \in SqPulseWidths : SqSetPulseWidth(pw)
    \/ SqProcess

(***************************************************************************)
(* The modulation chain of ChiptuneSynthVoice (ChiptuneSynthesiser.h):     *)
(* startNote() and the per-sample block of renderNextBlock() that runs the *)
(* arpeggiator, the pitch bend, the vibrato and the pulse width modulation *)
(* under their enable switches.  The modules are those of the sections     *)
(* above, here as records of the members that move from sample to sample,  *)
(* with the host's controls held at ChParams.  Each record counts in       *)
(* `calls` how often the module has run since the note started.  The       *)
(* envelope and the oscillators that follow the chain are not part of it.  *)
(***************************************************************************)
\* The sample rate and the control values of the model.  Times are scaled to
\* the sample rate (a PWM sustain of one sample, a bend of four); vibAmount is
\* the depth VibratoAmount itself, scaled up to the resolution of the model.
ChParams ==
    [sampleRate |-> ONE \div 8,
     arpSpeed |-> 50, arpPattern |-> 5, arpOctave |-> 1,
     pbTime |-> 50, pbInitPitch |-> -12,
     vibSustain |-> 0, vibSpeed |-> 0, vibAmount |-> ONE \div 4,
     pwmSustain |-> ONE \div 8, pwmMode |-> 0, pwmRate |-> ONE \div 2]

\* Notes played and oscillator types (0 square, 1 triangle) selected.
ChNotes == {69}

ChOscTypes == {0, 1}

\* Samples rendered for one note.
MaxChSamples == 2

ChSwitches == [arp : BOOLEAN, pb : BOOLEAN, vib : BOOLEAN, pwm : BOOLEAN]

\* startArpeggio(root).
ChStartArpeggio(root) ==
    [sampleCounter |-> 0, noteIndex |-> 1, noteIncrement |-> 0, currentNote |-> root,
     calls |-> 0]

\* Arpeggiator::getNextFrequency(); the frequency is that of currentNote.
ChGetNextFrequency(a, root) ==
    LET pattern == FixedPattern(ChParams.arpPattern, <<0>>)
        octaves == SwitchArpOctave(ChParams.arpOctave, 0)
        step    == ArpNoteDue(a.sampleCounter,
                              SamplesPerNote(ChParams.sampleRate, ChParams.arpSpeed))
        read    == step /\ ArpMayRead(a.noteIndex, Len(pattern))
        next    == IncrementPattern(a.noteIndex, a.noteIncrement, octaves, Len(pattern))
    IN  [sampleCounter |-> (IF step THEN 0 ELSE a.sampleCounter) + 1,
         noteIndex     |-> IF read THEN next[1] ELSE a.noteIndex,
         noteIncrement |-> IF read THEN next[2] ELSE a.noteIncrement,
         currentNote   |-> IF read
                           THEN root + pattern[a.noteIndex + 1] + 12 * a.noteIncrement
                           ELSE a.currentNote,
         calls         |-> a.calls + 1]

\* PitchBend::setSampleRate() and startPitchBend(note).
ChStartPitchBend(note) ==
    LET inputFreq   == MidiNoteInHertz(note)
        currentFreq == MidiNoteInHertz(note + ChParams.pbInitPitch)
        bendSamples == CalculateBendSamples(ChParams.pbTime, ChParams.sampleRate)
    IN  [currentFreq |-> currentFreq, inputFreq |-> inputFreq,
         bendDelta |-> BendDelta(inputFreq, currentFreq, bendSamples), calls |-> 0]

\* PitchBend::process().
ChBendProcess(b) ==
    [b EXCEPT !.currentFreq = PbStep(b.bendDelta, b.currentFreq, b.inputFreq),
              !.calls = b.calls + 1]

\* Vibrato::setSampleRate(), setFrequency() and resetSustainCounter().
ChStartVibrato(v) ==
    [v EXCEPT !.lfo = PhasorSetFrequency(PhasorSetSampleRate(v.lfo, ChParams.sampleRate),
                                         ChParams.vibSpeed),
              !.sustainCounter = 0, !.calls = 0]

\* The vibrato left where it is.
ChVibIdle(v) == v

\* Vibrato::process().
ChVibProcess(v) ==
    LET changed == VibSustainChanged(ChParams.vibSustain, ChParams.sampleRate,
                                     v.sustainSamples)
        samples == IF changed
                   THEN VibSustainInSamples(ChParams.vibSustain, ChParams.sampleRate)
                   ELSE v.sustainSamples
        counter == IF changed THEN 0 ELSE v.sustainCounter
        freq    == FAdd(FMul(ChParams.vibSpeed, 5 * ONE), 3 * ONE)
        lfo     == PhasorUpdatePhase(PhasorSetFrequency(v.lfo, freq))
    IN  IF VibInSustain(counter, samples)
        THEN [v EXCEPT !.sustainSamples = samples, !.sustainCounter = counter + 1,
                       !.out = 0, !.calls = v.calls + 1]
        ELSE [v EXCEPT !.sustainSamples = samples, !.sustainCounter = counter,
                       !.lfo = lfo,
                       !.out = FMul(SinOscOutput(lfo.phase), ChParams.vibAmount),
                       !.calls = v.calls + 1]

\* PulseWidthModulation::setSampleRate(), setRate() and resetSustainCounter().
ChStartPwm(p) ==
    [p EXCEPT !.osc = PhasorSetFrequency(PhasorSetSampleRate(p.osc, ChParams.sampleRate),
                                         FMul(ChParams.pwmRate, 10 * ONE)),
              !.sustainCounter = 0, !.calls = 0]

\* PulseWidthModulation::process(), up to the index it selects.
ChPwmProcess(p) ==
    LET osc     == PhasorSetFrequency(p.osc, FMul(ChParams.pwmRate, 10 * ONE))
        changed == VibSustainChanged(ChParams.pwmSustain, ChParams.sampleRate,
                                     p.sustainSamples)
        samples == IF changed
                   THEN VibSustainInSamples(ChParams.pwmSustain, ChParams.sampleRate)
                   ELSE p.sustainSamples
        counter == IF changed THEN 0 ELSE p.sustainCounter
        swept   == PhasorUpdatePhase(osc)
    IN  IF VibInSustain(counter, samples)
        THEN [p EXCEPT !.osc = osc, !.sustainSamples = samples,
                       !.sustainCounter = counter + 1,
                       !.pwIndex = PwmRestingIndex(ChParams.pwmMode),
                       !.calls = p.calls + 1]
        ELSE [p EXCEPT !.osc = swept, !.sustainSamples = samples,
                       !.sustainCounter = counter,
                       !.pwIndex = CalculateIndex(swept.phase, ChParams.pwmMode),
                       !.calls = p.calls + 1]

ChInit ==
    /\ chVoice = [playing |-> FALSE, freq |-> MidiNoteInHertz(69), oscType |-> 0,
                  note |-> 0, samples |-> 0]
    /\ chArp = ChStartArpeggio(0)
    /\ chBend = [currentFreq |-> 0, inputFreq |-> 0, bendDelta |-> 0, calls |-> 0]
    /\ chVib = [lfo |-> PhasorNew, sustainSamples |-> 0, sustainCounter |-> 0,
                out |-> 0, calls |-> 0]
    /\ chPwm = [osc |-> PhasorNew, sustainSamples |-> 0, sustainCounter |-> 0,
                pwIndex |-> 0, calls |-> 0]
    /\ chSwitch = [arp |-> FALSE, pb |-> FALSE, vib |-> FALSE, pwm |-> FALSE]

\* startNote(note), reading "oscType" = oscType.
ChStartNote(note, oscType) ==
    /\ chVoice' = [playing |-> TRUE, freq |-> MidiNoteInHertz(note), oscType |-> oscType,
                   note |-> note, samples |-> 0]
    /\ chPwm' = ChStartPwm(chPwm)
    /\ chBend' = ChStartPitchBend(note)
    /\ chArp' = ChStartArpeggio(note)
    /\ chVib' = ChStartVibrato(chVib)
    /\ UNCHANGED chSwitch
    /\ ChFrame

\* One sample of renderNextBlock(), up to the oscillator: the arpeggiator,
\* the pitch bend, the vibrato, and for the square the pulse width modulation.
ChRenderSample(switch) ==
    LET arp  == IF switch.arp THEN ChGetNextFrequency(chArp, chVoice.note) ELSE chArp
        f1   == IF switch.arp THEN MidiNoteInHertz(arp.currentNote) ELSE chVoice.freq
        bend == IF switch.pb THEN ChBendProcess(chBend) ELSE chBend
        f2   == IF switch.pb THEN bend.currentFreq ELSE f1
        vib  == ChVibProcess(chVib)
        f3   == IF switch.vib THEN FMul(f2, FAdd(ONE, vib.out)) ELSE f2
    IN  /\ chVoice.playing
        /\ chVoice.samples < MaxChSamples
        /\ chArp' = arp
        /\ chBend' = bend
        /\ chVib' = vib
        /\ chPwm' = IF chVoice.oscType = 0 /\ switch.pwm THEN ChPwmProcess(chPwm) ELSE chPwm
        /\ chVoice' = [chVoice EXCEPT !.freq = f3, !.samples = chVoice.samples + 1]
        /\ chSwitch' = switch
        /\ ChFrame

ChNext ==
    \/ \E note \in ChNotes, oscType \in ChOscTypes : ChStartNote(note, oscType)
    \/ \E switch \in ChSwitches : ChRenderSample(switch)

(***************************************************************************)
(* The master chain in stereo (PluginProcessor.cpp): prepareToPlay()       *)
(* builds a Bitcrusher and a Delay for each of the two channels,           *)
(* processBlock() sets both pairs from the parameters and runs every       *)
(* sample of each channel through its pair.  The synthesiser adds the same *)
(* voice sum to both channels of the cleared buffer.  A process() call     *)
(* that reads its buffer out of range has undefined behaviour: the sample  *)
(* it leaves is any value, chosen for each channel on its own (the two     *)
(* buffers are two allocations), and the channel is not followed further.  *)
(***************************************************************************)
\* The sample rate handed to prepareToPlay() (buffers of 9 samples).
StSampleRates == {3}

\* Parameter values: "rateReduction", "bitDepth", "delayTime" (as
\* MdDelayTimes), "feedback" and "dryWetMix".
StParams ==
    [rateReduction : {1, 2}, bitDepth : {4, 24}, delayTime : {0, 1, ONE \div 3 + 1},
     feedback : {ONE \div 2}, mix : {ONE \div 2}]

\* Samples of the voice sum, and what a read out of range may leave.
StInputs == {0, ONE \div 2}

StGarbage == {0, ONE}

\* Samples processed in one run.
MaxStCalls == 3

\* Bitcrusher(), setSampleRateReduction(1), setBitDepth(24); Delay(),
\* setSize(sampleRate * 3), setDelayTime(sampleRate * 0.5), setFeedback(0.1),
\* setDryWetMix(0.2).
StNewChannel(sampleRate) ==
    LET size == 3 * sampleRate
        time == FRat(sampleRate * ONE, 2)
    IN  [crusher |-> [reduction |-> Max(1, 1), scale |-> BitDepthScale(Clamp(1, 24, 24)),
                      last |-> 0, count |-> 0],
         delay   |-> [buffer |-> Resize(<<>>, size), size |-> size, delayTime |-> time,
                      readPos |-> DlWrapRead(FSub(0, time), size), writePos |-> 0,
                      feedback |-> Clamp(0, FRat(99 * ONE, 100), FRat(ONE, 10)),
                      mix |-> Clamp(0, ONE, FRat(2 * ONE, 10)),
                      fault |-> FALSE, last |-> DlNoCall],
         out     |-> <<>>]

\* The setters processBlock() calls on a channel before its sample loop.
StUpdate(ch, p, sampleRate) ==
    LET time == FRound(sampleRate * p.delayTime)
    IN  [crusher |-> [ch.crusher EXCEPT
                        !.reduction = Max(1, p.rateReduction),
                        !.scale = BitDepthScale(Clamp(1, 24, p.bitDepth))],
         delay   |-> [ch.delay EXCEPT
                        !.delayTime = time,
                        !.readPos = DlWrapRead(FSub(ch.delay.writePos, time), ch.delay.size),
                        !.feedback = Clamp(0, FRat(99 * ONE, 100), p.feedback),
                        !.mix = Clamp(0, ONE, p.mix)],
         out     |-> <<>>]

\* Bitcrusher::process(inVal) on the members c.
StCrush(c, inVal) ==
    LET count == c.count + 1
        fresh == BcHoldElapsed(count, c.reduction)
    IN  [c EXCEPT !.count = IF fresh THEN 0 ELSE count,
                  !.last = IF fresh THEN BcQuantize(inVal, c.scale) ELSE c.last]

\* One pass of the sample loop on one channel:
\* samples[i] = delays[k].process(bitcrushers[k].process(samples[i])).
StSample(ch, inVal, garbage) ==
    LET crusher == StCrush(ch.crusher, inVal)
        delay   == MdSample(ch.delay, crusher.last)
    IN  IF ch.delay.fault THEN [ch EXCEPT !.out = Append(@, garbage)]
        ELSE [crusher |-> crusher, delay |-> delay,
              out |-> Append(ch.out, IF delay.fault THEN garbage ELSE delay.last.out)]

RECURSIVE StSamples(_, _, _)
StSamples(ch, samples, garbage) ==
    IF samples = <<>> THEN ch
    ELSE StSamples(StSample(ch, Head(samples), garbage), Tail(samples), garbage)

StInit ==
    /\ stSampleRate = 0
    /\ stChannels = <<>>
    /\ stCalls = 0

StPrepareToPlay(sampleRate) ==
    /\ stSampleRate' = sampleRate
    /\ stChannels' = <<StNewChannel(sampleRate), StNewChannel(sampleRate)>>
    /\ UNCHANGED stCalls
    /\ StFrame

\* processBlock(): the voice sum `samples` in both channels, the parameters p.
StProcessBlock(p, samples) ==
    /\ stSampleRate > 0
    /\ \A k \in 1..2 : ~stChannels[k].delay.fault
    /\ stCalls + Len(samples) <= MaxStCalls
    /\ \E left \in StGarbage, right \in StGarbage :
         stChannels' = <<StSamples(StUpdate(stChannels[1], p, stSampleRate), samples, left),
                         StSamples(StUpdate(stChannels[2], p, stSampleRate), samples, right)>>
    /\ stCalls' = stCalls + Len(samples)
    /\ UNCHANGED stSampleRate
    /\ StFrame

StNext ==
    \/ \E sampleRate \in StSampleRates : StPrepareToPlay(sampleRate)
    \/ \E p \in StParams, samples \in UNION {[1..n -> StInputs] : n \in 1..MaxBlock} :
         StProcessBlock(p, samples)

Init ==
    /\ VibInit /\ ArpInit /\ PbInit /\ BcInit /\ DlInit /\ PhInit /\ VoInit
    /\ MdInit /\ PwmInit /\ NsInit /\ TriInit /\ SqInit /\ ChInit /\ StInit

VibratoSpec == Init /\ [][VibNext]_vars

ArpeggiatorSpec == Init /\ [][ArpNext]_vars

PitchBendSpec == Init /\ [][PbNext]_vars

BitcrusherSpec == Init /\ [][BcNext]_vars

DelaySpec == Init /\ [][DlNext]_vars

PhasorSpec == Init /\ [][PhNext]_vars

MasterDelaySpec == Init /\ [][MdNext]_vars

PwmSpec == Init /\ [][PwmNext]_vars

\* The voice, with renderNextBlock() called again and again by the host.
VoiceSpec == Init /\ [][VoNext]_vars /\ WF_vars(VoRender)

NoiseSpec == Init /\ [][NsNext]_vars

TriangleSpec == Init /\ [][TriNext]_vars

SquareSpec == Init /\ [][SqNext]_vars

ChainSpec == Init /\ [][ChNext]_vars

StereoSpec == Init /\ [][StNext]_vars

Next ==
    \/ VibNext
    \/ ArpNext
    \/ PbNext
    \/ BcNext
    \/ DlNext
    \/ PhNext
    \/ VoNext
    \/ MdNext
    \/ PwmNext
    \/ NsNext
    \/ TriNext
    \/ SqNext
    \/ ChNext
    \/ StNext

Spec == Init /\ [][Next]_vars

(***************************************************************************)
(* The claims.                                                             *)
(***************************************************************************)
\* C1 (as stated): with the sustain setting T and the sample rate held constant
\* after resetSustainCounter(), the k-th process() call returns the gated 0
\* exactly when k <= int(T * sampleRate), and takes the LFO branch afterwards.
C1_SustainGate ==
    vibCalls >= 1 =>
        (vibGated <=> vibCalls <= VibSustainInSamples(pVibSustain, vibSampleRate))

\* C2: in hold mode (numOctaves = 0), once the arpeggiator has stepped through
\* the pattern, every getNextFrequency() call returns the frequency of
\* root + last pattern element: it neither advances nor wraps to the root.
C2_ArpHold ==
    (arpNumOctaves = 0 /\ arpAdvances >= Len(arpPattern) - 1) =>
        /\ arpCurrentNote = arpRootNote + arpPattern[Len(arpPattern)]
        /\ arpOut = MidiNoteInHertz(arpRootNote + arpPattern[Len(arpPattern)])

\* C2's case: the hold has lasted for a whole further pass of the pattern, on a
\* pattern whose last note is not the root.
C2_Witness ==
    /\ arpNumOctaves = 0
    /\ arpAdvances = 2 * Len(arpPattern) - 1
    /\ arpPattern[Len(arpPattern)] # 0
    /\ arpOut = MidiNoteInHertz(arpRootNote + arpPattern[Len(arpPattern)])

\* C3: with numOctaves = k >= 1 and a pattern of length L, the note after n
\* advances is root + pattern[n mod L] + 12 * ((n div L) mod k); after every
\* L*k advances the arpeggiator is back in its start state (noteIncrement 0,
\* noteIndex 1, the root note), so the notes repeat with period L*k.
C3_OctaveWrap ==
    (arpNumOctaves >= 1 /\ arpAdvances >= 0) =>
        LET L == Len(arpPattern)
            k == arpNumOctaves
        IN  /\ arpCurrentNote = arpRootNote + arpPattern[(arpAdvances % L) + 1]
                                    + 12 * ((arpAdvances \div L) % k)
            /\ (arpAdvances % (L * k) = 0) =>
                    /\ arpNoteIncrement = 0
                    /\ arpNoteIndex = 1
                    /\ arpCurrentNote = arpRootNote

\* C3's case: pattern [0,4,7] over 2 octaves is back at the root after 6 advances.
C3_Witness ==
    /\ arpNumOctaves = 2
    /\ arpPattern = <<0, 4, 7>>
    /\ arpAdvances = 6
    /\ arpNoteIncrement = 0
    /\ arpOut = MidiNoteInHertz(arpRootNote)

\* C4 (as stated): after startPitchBend(), currentFreq stays between the start
\* frequency and the target inputFreq, never beyond the target.
C4_NeverOvershoots ==
    pbCalls >= 0 =>
        /\ Min(pbStartFreq, pbInputFreq) <= pbCurrentFreq
        /\ pbCurrentFreq <= Max(pbStartFreq, pbInputFreq)

\* C5 (as stated): the frequency returned by call number bendSamples is within
\* one |bendDelta| of inputFreq.
C5_ConvergesInBendSamples ==
    (pbCalls >= 1 /\ pbCalls = pbBendSamples) =>
        Abs(pbCurrentFreq - pbInputFreq) <= Abs(pbBendDelta)

\* C6: on a fresh Bitcrusher whose reduction factor n was set before the first
\* call, process() enters its recompute branch exactly on calls n, 2n, 3n, ...;
\* every other call leaves the held sample as it was, whatever the input, and
\* the first n-1 calls return the initial held value 0.
C6_SampleAndHold ==
    [][bcCalls' >= 1 =>
          /\ bcRecomputed' <=> (bcCalls' % bcSampleRateReduction' = 0)
          /\ ~bcRecomputed' => bcLastProcessedSample' = bcLastProcessedSample
          /\ bcCalls' < bcSampleRateReduction' => bcLastProcessedSample' = 0]_vars

\* C6's case: with n = 3, call 5 still returns the non-zero sample held since
\* call 3.
C6_Witness ==
    /\ bcSampleRateReduction = 3
    /\ bcCalls = 5
    /\ ~bcRecomputed
    /\ bcLastProcessedSample # 0

\* C7 (as stated): with reduction 1 and bit depth d, a sweep of the input over
\* [-0.5, 0.5] returns exactly 2^d distinct values.  Stated for the depths whose
\* levels the sweep's points can tell apart.
C7_QuantLevels ==
    (bcSweep = SweepLen /\ 2 * bcBitDepthScale + 1 <= SweepLen) =>
        Cardinality(bcSeen) = 2^bcBitDepth

\* C8: when delayTime is 0 or negative, process(x) returns exactly x,
\* whatever the feedback, the dry/wet mix and the buffer contents are.
C8_Passthrough ==
    (dlLast.called /\ "delayTime" \notin dlUnset /\ dlDelayTime <= 0) =>
        dlLast.out = dlLast.in

\* C8's case: a non-zero sample passes through a fully wet delay with a
\* negative delay time, feedback and a non-silent buffer.
C8_Witness ==
    /\ dlLast.called
    /\ "delayTime" \notin dlUnset
    /\ dlDelayTime < 0
    /\ dlLast.in = ONE
    /\ dlLast.out = ONE
    /\ dlDryWetMix = ONE
    /\ dlFeedback > 0
    /\ \E i \in 1..Len(dlBuffer) : dlBuffer[i] # 0

\* f^n as the program's floats compute it, by repeated multiplication.
RECURSIVE FPow(_, _)
FPow(f, n) == IF n = 0 THEN ONE ELSE FMul(FPow(f, n - 1), f)

\* C9 (as stated): after a unit impulse into a silent delay line with whole
\* delay D and feedback f, the wet value read n*D calls after the impulse is
\* f^n, and the wet value of every call in between is 0.
C9_EchoDecayAsStated ==
    (dlEcho >= 1 /\ dlLast.called) =>
        LET D == dlDelayTime \div ONE
        IN  dlLast.wet = IF dlEcho % D = 0 THEN FPow(dlFeedback, dlEcho \div D) ELSE 0

\* C9 (amended): the wet value read n*D calls after the impulse is f^(n-1): the
\* first echo has amplitude 1 and each later one is f times the one before; the
\* wet value of every call in between is 0.
C9_EchoDecay ==
    (dlEcho >= 1 /\ dlLast.called) =>
        LET D == dlDelayTime \div ONE
        IN  dlLast.wet = IF dlEcho % D = 0 THEN FPow(dlFeedback, (dlEcho \div D) - 1)
                         ELSE 0

\* C9's case: with D = 1 the second echo has just been read, at amplitude f.
C9_Witness ==
    /\ dlEcho = 2
    /\ dlDelayTime = ONE
    /\ dlLast.called
    /\ dlLast.wet = dlFeedback
    /\ dlLast.wet # ONE

\* C10 (as stated): once the buffer is sized, after any setDelayTime(t) calls
\* with t >= 0 interleaved with process() calls, readPos is (writePos -
\* delayTime) modulo size and both positions lie in [0, size).
C10_ReadPosInvariant ==
    dlUse = "ready" =>
        LET span == dlSize * ONE
        IN  /\ ~dlFault
            /\ 0 <= dlReadPos /\ dlReadPos < span
            /\ 0 <= dlWritePos /\ dlWritePos < span
            /\ dlReadPos = (dlWritePos - dlDelayTime) % span

\* C11 (as stated): as long as every tick adds a phaseDelta in [0, 1), the
\* phase is in [0, 1) after every process() or getPhase(): it never equals 1.
C11_PhaseRange ==
    phWithin => (0 <= phasor.phase /\ phasor.phase < ONE)

\* C12 (as stated): after any interleaving of setSampleRate() and setFrequency(),
\* phaseDelta is the last frequency set divided by the last sample rate set.
C12_DeltaConsistent ==
    phasor.phaseDelta = FRat(phasor.frequency, phasor.sampleRate)

\* C13: in every state reached through startArpeggio() and getNextFrequency(),
\* with any pattern selection and loop mode, noteIndex is within the pattern:
\* no read of pattern[noteIndex] was outside it, and the guard
\* noteIndex <= pattern.size() never meets noteIndex = pattern.size().
C13_IndexSafe ==
    /\ ~arpBadRead
    /\ 0 <= arpNoteIndex
    /\ arpNoteIndex < Len(arpPattern)

\* C13's case: a random pattern has been stepped through to its last note in
\* hold mode, where the index stays on the last element.
C13_Witness ==
    /\ Len(arpPattern) = NumberOfValues + 1
    /\ arpNumOctaves = 0
    /\ arpAdvances >= Len(arpPattern)
    /\ arpNoteIndex = Len(arpPattern) - 1
    /\ ~arpBadRead

\* C14 (Voice lifecycle): startNote() sets playing; stopNote() leaves it as it
\* is; a block rendered by a playing voice runs the modulation modules; playing
\* is cleared only by a render whose envelope has gone idle, and after every
\* render it is true exactly when the envelope is active; and, with
\* renderNextBlock() called again and again, a released playing voice
\* eventually stops playing (or is started again).
C14_Step ==
    /\ voOp' = "start" => voPlaying'
    /\ voOp' = "stop" => voPlaying' = voPlaying
    /\ (voOp' = "render" /\ voPlaying) => voTicks' >= 1
    /\ (voPlaying /\ ~voPlaying') => (voOp' = "render" /\ ~EnvIsActive(voEnv'))
    /\ voOp' = "render" => (voPlaying' <=> EnvIsActive(voEnv'))
    /\ EnvIsActive(voEnv') => voPlaying'

C15_RetriggerKeepsLevel ==
    (voOp = "start" /\ voBefore.active) =>
        (voEnv.state = "attack" /\ voEnv.val = voBefore.val)

\* C16 (Config errors fail fast): setSize(n) with n <= 0 is refused at the
\* call, so a delay line never holds a size it was given that is not positive.
C16_SetSizeRejected == ("size" \notin dlUnset) => dlSize > 0

\* C17 (Structural safety of the master delay): once prepareToPlay() has run,
\* whatever blocks processBlock() is given with the delay time within [0, 1] s,
\* the buffer size is positive and no process() call has used an index outside
\* the buffer or taken a remainder by zero.
C17_MasterDelaySafe == mdSampleRate > 0 => (dlSize > 0 /\ ~dlFault)

\* C18 (Bitcrusher clamping): setSampleRateReduction(n) stores max(1, n);
\* setBitDepth(d) stores d clamped to [1, 24] and the scale 2^depth - 1; so the
\* depth stays within [1, 24], and the scale process() divides by is at least 1.
C18_Step ==
    /\ \A n \in BcReductions :
          BcSetSampleRateReduction(n) =>
              bcSampleRateReduction' = (IF n >= 1 THEN n ELSE 1)
    /\ \A d \in BcDepths :
          BcSetBitDepth(d) =>
              /\ bcBitDepth' = (IF d < 1 THEN 1 ELSE IF d > 24 THEN 24 ELSE d)
              /\ bcBitDepthScale' = 2^bcBitDepth' - 1
    /\ bcSampleRateReduction' >= 1
    /\ bcBitDepth' \in 1..24
    /\ bcBitDepthScale' >= 1

C18_Clamping == [][C18_Step]_vars

\* C18's case: process() has quantised a sample with the smallest scale, 1,
\* which setBitDepth() stores for the depths 1 and below.
C18_Witness ==
    /\ bcBitDepth = 1
    /\ bcBitDepthScale = 1
    /\ bcSampleRateReduction = 1
    /\ bcRecomputed
    /\ bcLastProcessedSample # 0

\* C19 (Bitcrusher transparency): with reduction 1 and bit depth 24, every
\* process(x) call, x within [-0.5, 0.5], recomputes the output, and the output
\* differs from x by no more than half a step of the quantiser (the step being
\* 1/bitDepthScale).
C19_Step ==
    \A x \in BcInputs :
        (BcProcess(x) /\ bcSampleRateReduction = 1 /\ bcBitDepth = 24) =>
            /\ bcRecomputed'
            /\ Abs(bcLastProcessedSample' - x) <= ONE \div (2 * bcBitDepthScale)

C20_SustainWindow ==
    pwmCalls >= 1 =>
        /\ pwmPinned <=> pwmCalls <= VibSustainInSamples(pPwm.sustain, pwmSampleRate)
        /\ pwmPinned => pwmTarget = PulseWidths[(pPwm.mode \div 2) + 1]

\* C21 (PWM preset index): pwIndex is always 0, 1 or 2; and for the current
\* mode and every oscillator output o within [0, 1], calculateIndex() selects
\* only the mode's presets (mode 0 and 3: 0, 1; mode 2 and 4: 1, 2; mode 1 and
\* 5: 0, 1, 2), no smaller for the oscillator's own output than for a smaller
\* o in modes 0-2, and no larger in modes 3-5.
C21_PresetIndex ==
    /\ pwmPwIndex \in {0, 1, 2}
    /\ (0 <= pwmOsc.phase /\ pwmOsc.phase <= ONE) =>
          LET mode == pwmCurrentPwMode
              here == CalculateIndex(pwmOsc.phase, mode)
              sel  == CASE mode \in {0, 3} -> {0, 1}
                        [] mode \in {2, 4} -> {1, 2}
                        [] mode \in {1, 5} -> {0, 1, 2}
          IN  \A o \in 0..ONE :
                  /\ CalculateIndex(o, mode) \in sel
                  /\ (o <= pwmOsc.phase /\ mode <= 2) => CalculateIndex(o, mode) <= here
                  /\ (o <= pwmOsc.phase /\ mode >= 3) => CalculateIndex(o, mode) >= here

\* C21's case: past the sustain window in mode 5 (50% to 12.5%), the sweep
\* has come down to the first preset.
C21_Witness ==
    /\ pwmCalls >= 1
    /\ ~pwmPinned
    /\ pwmCurrentPwMode = 5
    /\ pwmPwIndex = 0
    /\ pwmOsc.phase > ONE \div 2

\* C22 (Noise table access): whatever notes the voice asks for, up to note 127
\* with the arpeggiator's pattern and octave offsets, the phase stays within
\* [0, wtSize) and no process() call reads outside the table.
C22_PhaseInTable == ~nsFault /\ 0 <= nsPhase /\ nsPhase < nsSampleRate

\* C23 (Pseudo-triangle quantization): with the triangle distortion on, the
\* bit-crushed triangle takes at most 16 distinct amplitudes over a whole
\* oscillator period.
C23_SixteenLevels == triWhole => Cardinality(triSeen) <= 16

\* C24 (Square anti-aliasing): for 0 < phaseDelta below both pulseWidth and
\* 1 - pulseWidth, two consecutive samples that straddle an edge (the wrap at
\* phase 0, or phase pulseWidth) differ by strictly less than 2, and a sample
\* farther than one phaseDelta from both edges is exactly the naive +1 or -1.
C24_AntiAliased ==
    LET dt        == squareOsc.phaseDelta
        pw        == sqPulseWidth
        p         == squareOsc.phase
        far       == p > dt /\ ONE - p > dt /\ Abs(p - pw) > dt
        straddles == p < sqPrev.phase \/ (sqPrev.phase < pw /\ pw <= p)
    IN  (0 < dt /\ dt < pw /\ dt < ONE - pw) =>
            /\ (sqRun = 2 /\ straddles) => Abs(sqOut - sqPrev.out) < 2 * ONE
            /\ (sqRun >= 1 /\ far) => sqOut = SquareNaive(p, pw)

\* Two consecutive samples around the wrap at a pulse width of 1/8, both
\* corrected by the PolyBLEP, at a phase delta of 7/64.
C24_Witness ==
    /\ sqRun = 2
    /\ squareOsc.phaseDelta = 7 /\ sqPulseWidth = ONE \div 8
    /\ squareOsc.phase < sqPrev.phase
    /\ sqOut \notin {ONE, -ONE} /\ sqPrev.out \notin {ONE, -ONE}

\* C25 (Always-running modules), as stated: on every rendered sample of a note
\* the arpeggiator, the pitch bend, the vibrato and the PWM all advance,
\* whatever their enable switches: each has run once per rendered sample.
C25_AlwaysRunning ==
    /\ chArp.calls = chVoice.samples
    /\ chBend.calls = chVoice.samples
    /\ chVib.calls = chVoice.samples
    /\ chPwm.calls = chVoice.samples

\* C25, amended: on every rendered sample the vibrato advances whether or not
\* its switch is on, and the switch only decides whether its output is applied
\* to the frequency; the arpeggiator, the pitch bend and the PWM advance only
\* on samples whose switch is on (the PWM only with the square oscillator).
C25_RunsWhenEnabled ==
    [][chVoice'.samples = chVoice.samples + 1 =>
          LET ran(on) == IF on THEN 1 ELSE 0
          IN  /\ chVib'.calls = chVib.calls + 1
              /\ chVib' # chVib
              /\ chArp'.calls = chArp.calls + ran(chSwitch'.arp)
              /\ chBend'.calls = chBend.calls + ran(chSwitch'.pb)
              /\ chPwm'.calls = chPwm.calls + ran(chSwitch'.pwm /\ chVoice.oscType = 0)
              /\ ~chSwitch'.arp => chArp' = chArp
              /\ ~chSwitch'.pb => chBend' = chBend
              /\ ~chSwitch'.pwm => chPwm' = chPwm
              /\ (~chSwitch'.arp /\ ~chSwitch'.pb /\ ~chSwitch'.vib) =>
                    chVoice'.freq = chVoice.freq]_vars

\* Two samples rendered with every switch off: the vibrato has run twice, the
\* other three modules not at all.
C25_Witness ==
    /\ chVoice.samples = 2
    /\ chVib.calls = 2 /\ chArp.calls = 0 /\ chBend.calls = 0 /\ chPwm.calls = 0
    /\ ~chSwitch.arp /\ ~chSwitch.pb /\ ~chSwitch.vib /\ ~chSwitch.pwm

\* C26 (Vibrato proportional): with the vibrato on and the arpeggiator and the
\* pitch bend off on a rendered sample, the oscillator frequency is the note
\* frequency times (1 + the vibrato output of that sample), within the note
\* frequency times (1 +/- depth).
C26_Proportional ==
    (chVoice.samples > 0 /\ chSwitch.vib /\ ~chSwitch.arp /\ ~chSwitch.pb) =>
        LET note == MidiNoteInHertz(chVoice.note)
        IN  /\ chVoice.freq = FMul(note, FAdd(ONE, chVib.out))
            /\ chVoice.freq >= FMul(note, FSub(ONE, ChParams.vibAmount))
            /\ chVoice.freq <= FMul(note, FAdd(ONE, ChParams.vibAmount))

\* C27 (Arpeggio step timing): with the speed control constant since
\* startArpeggio(), the root is returned by the first samplesPerNote calls of
\* getNextFrequency() and each later pattern step by samplesPerNote calls in
\* turn: after call k the pattern has advanced (k - 1) \div samplesPerNote
\* times, the first time on call samplesPerNote + 1.
C27_StepTiming ==
    LET spn == SamplesPerNote(arpSampleRate, pArpSpeed)
    IN  (arpCalls >= 1 /\ arpCalls <= 3 * spn + 1) =>
            /\ arpAdvances = (arpCalls - 1) \div spn
            /\ arpSampleCounter = ((arpCalls - 1) % spn) + 1
            /\ arpCalls <= spn => arpOut = MidiNoteInHertz(arpRootNote)

\* Call 2 * samplesPerNote + 1 at two samples to the note: the second step.
C27_Witness ==
    /\ SamplesPerNote(arpSampleRate, pArpSpeed) = 2
    /\ arpCalls = 5 /\ arpAdvances = 2 /\ arpOut # MidiNoteInHertz(arpRootNote)

\* C28 (Arpeggiator octave bound): noteIncrement is always within
\* 0..max(numOctaves - 1, 0), and the current note is root + pattern[i] + 12 * j
\* with j < max(numOctaves, 1): no transposition with one octave, the offsets
\* 0 and 12 with two.
C28_OctaveBound ==
    /\ arpNoteIncrement \in 0..Max(arpNumOctaves - 1, 0)
    /\ \E i \in 1..Len(arpPattern), j \in 0..(Max(arpNumOctaves, 1) - 1) :
          arpCurrentNote = arpRootNote + arpPattern[i] + 12 * j
    /\ arpNumOctaves = 1 =>
          \E i \in 1..Len(arpPattern) : arpCurrentNote = arpRootNote + arpPattern[i]

\* Two octaves, the pattern in its second pass: a note of the upper octave.
C28_Witness ==
    /\ arpNumOctaves = 2 /\ arpNoteIncrement = 1 /\ arpAdvances >= Len(arpPattern)
    /\ arpCurrentNote = arpRootNote + arpPattern[Len(arpPattern)] + 12

\* C29 (Delay bypass leaves the line untouched): a process() call made while
\* delayTime <= 0 changes neither the buffer nor writePos nor readPos, so its
\* input is not recorded, and setDelayTime() leaves the buffer and writePos as
\* they are: what the buffer held is still there when the delay is set again.
C29_BypassFrame ==
    [][/\ (dlCalls' = dlCalls + 1 /\ "delayTime" \notin dlUnset /\ dlDelayTime <= 0) =>
            /\ UNCHANGED <<dlBuffer, dlWritePos, dlReadPos>>
            /\ dlLast'.out = dlLast'.in
       /\ (dlCalls' = dlCalls /\ dlDelayTime' # dlDelayTime) =>
            UNCHANGED <<dlBuffer, dlWritePos>>]_vars

\* A non-zero input bypassed while the buffer holds an earlier non-zero sample.
C29_Witness ==
    /\ dlLast.called /\ dlLast.bypass /\ dlLast.in = ONE
    /\ "delayTime" \notin dlUnset /\ dlDelayTime <= 0
    /\ \E i \in 1..Len(dlBuffer) : dlBuffer[i] # 0

\* C30 (Channel symmetry of the master chain): after prepareToPlay(), whatever
\* the blocks and the parameters, processBlock() leaves the same samples in
\* the left and the right channel.
C30_ChannelsEqual ==
    Len(stChannels) = 2 => stChannels[1].out = stChannels[2].out

=============================================================================
